---------------------------- MODULE Spec2Model ----------------------------
(***************************************************************************)
(* Model of the Daily News Roundup pipeline (CenterCoopMedia/dnr):         *)
(*   classifier.py      classify_story, classify_stories_batch,            *)
(*                      filter_top_stories                                 *)
(*   main.py            classify_all_stories, deduplicate_stories,         *)
(*                      organize_by_section, run_pipeline                  *)
(*   workflow.py        process_feedback, feedback_loop,                   *)
(*                      review_airtable_submissions, run_workflow          *)
(*   html_formatter.py  build_newsletter                                   *)
(* The external oracle (the Anthropic messages API) is the environment: an *)
(* oracle call is a step whose response is chosen nondeterministically.    *)
(* A dict key that is not present is the value Absent.                     *)
(***************************************************************************)
EXTENDS Integers, Sequences, FiniteSets, TLC

VARIABLES
    \* classify_stories_batch
    stories,          \* the argument: list of story dicts
    max_per_request,  \* the argument max_per_request
    i,                \* the loop variable of range(0, len(stories), max_per_request)
    k,                \* position (1-based) in the batch of the fallback loop
    pc,               \* "batch" | "fallback" | "done" (returned) | "raised"
    results,          \* the local list results
    origin,           \* history: for each element of results, its batch, its path
                      \* and whether the oracle's label for it was in SECTIONS
    calls,            \* history: the oracle calls made, in order, each with
                      \* what kind of response it got
    \* deduplicate_stories
    dd_stories,       \* the argument: list of story dicts
    dd_unique,        \* the list returned by the last call
    dd_first,         \* the list returned by the first call
    dd_pc,            \* "start" | "once" | "twice": calls made so far
    \* organize_by_section
    org_stories,      \* the argument stories
    max_top_stories,  \* the argument max_top_stories
    org_sections,     \* the dict returned
    org_pc,           \* "start" | "organized"
    \* process_feedback
    fb_sections,      \* the sections dict the feedback loop holds
    fb_before,        \* history: the dict's value when the last call began
    fb_kind,          \* history: the kind of the oracle's response to the last call
    fb_error,         \* history: the last call ended in its except clause
    fb_round,         \* calls of process_feedback so far
    \* filter_top_stories
    ft_stories,       \* the argument: list of story dicts, changed in place
    ft_input,         \* history: the list as it was passed
    filtered_count,   \* the local filtered_count
    ft_pc,            \* "start" | "filtered"
    \* run_pipeline, steps 2 to 4
    pl_stories,       \* the fetched stories
    pl_classified,    \* classify_all_stories' list classified
    pl_unique,        \* the list deduplicate_stories returned
    pl_sections,      \* the dict organize_by_section returned
    pl_pc,            \* "fetched" | "classifying" | "organized"
    \* process_feedback, called with responses of one action
    ap_sections,      \* the argument sections, changed in place
    ap_log,           \* history: for each call the actions of the response,
                      \* sections before and after, whether the except clause
                      \* was entered, whether an exception left the call, and
                      \* the notes printed
    ap_max,           \* the capacity the map was organized with
    \* feedback_loop
    lp_sections,      \* the variable sections
    lp_entry,         \* history: the sections argument at entry
    lp_state,         \* "AwaitingFeedback" | "Done" | "raised" (an exception
                      \* left the loop)
    lp_html,          \* the content of the preview file
    lp_line,          \* the line input() returned last, Absent before the first
    lp_calls,         \* oracle calls made so far
    lp_passes,        \* calls of process_feedback so far
    lp_returned,      \* the pair feedback_loop returned, once it returned
    lp_round,         \* iterations of the loop so far that did not end it
    \* run_workflow, step 4 and the organizing that follows it
    rv_unique,        \* the list unique, its stories changed in place
    rv_updates,       \* the list review_airtable_submissions returned
    rv_sections,      \* the dict organize_by_section returned
    rv_pc             \* "start" | "reviewed" | "organized"

classVars == <<stories, max_per_request, i, k, pc, results, origin, calls>>

dedupVars == <<dd_stories, dd_unique, dd_first, dd_pc>>

orgVars == <<org_stories, max_top_stories, org_sections, org_pc>>

fbVars == <<fb_sections, fb_before, fb_kind, fb_error, fb_round>>

filterVars == <<ft_stories, ft_input, filtered_count, ft_pc>>

plVars == <<pl_stories, pl_classified, pl_unique, pl_sections, pl_pc>>

applyVars == <<ap_sections, ap_log, ap_max>>

loopVars ==
    <<lp_sections, lp_entry, lp_state, lp_html, lp_line, lp_calls, lp_passes,
      lp_returned, lp_round>>

reviewVars == <<rv_unique, rv_updates, rv_sections, rv_pc>>

vars ==
    <<classVars, dedupVars, orgVars, fbVars, filterVars, plVars, applyVars, loopVars,
      reviewVars>>

-----------------------------------------------------------------------------
(* Bounds of the model *)

\* longest story list handed to classify_stories_batch
MaxStories == 3

\* largest max_per_request handed to classify_stories_batch
MaxPerRequest == 2

\* longest story list handed to deduplicate_stories
MaxDedupStories == 3

\* longest story list handed to organize_by_section
MaxOrgStories == 3

\* largest max_top_stories handed to organize_by_section
MaxTop == 2

\* longest list of actions in a response of the feedback oracle
MaxActions == 2

\* most calls of process_feedback in one run
MaxRounds == 1

\* most stories in the list given to filter_top_stories
MaxFilterStories == 2

\* most stories the pipeline fetches
MaxPipelineStories == 2

\* most calls of process_feedback with a response of one action
MaxApplies == 2

\* most iterations of feedback_loop that do not end it
MaxLoopRounds == 2

\* most entries of the "actions" array in the feedback loop
MaxLoopActions == 1

\* most stories in the list given to review_airtable_submissions
MaxReviewStories == 7

\* most submitted stories among them
MaxSubmissions == 2

-----------------------------------------------------------------------------
(* classifier.py *)

SECTIONS ==
    <<"top_stories", "politics", "housing", "education",
      "health", "environment", "lastly", "skip">>

SectionSet == {SECTIONS[x] : x \in DOMAIN SECTIONS}

\* a dict key that is not present
Absent == "<absent>"

\* a label the oracle may return that is not in SECTIONS
OutsideLabel == "sports"

\* dict.get(key, default)
Get(v, default) == IF v = Absent THEN default ELSE v

Min(a, b) == IF a <= b THEN a ELSE b

\* confidence of classify_story's except clause
FailConfidence == "0.3"

\* cls.get("confidence", 0.5)
MissingConfidence == "0.5"

\* confidence of a story with no entry in the batch response
ShortConfidence == "0.3"

\* the confidences the oracle reports
OracleConfidences == {"0.9"}

\* a confidence in tenths
Tenths(c) ==
    CASE c = "0.3" -> 3
      [] c = "0.5" -> 5
      [] c = "0.9" -> 9

\* A story as fetched: not yet classified.
Story(id) ==
    [id |-> id, headline |-> "NJ Transit fares rise", url |-> "https://nj.example/a",
     section |-> Absent, confidence |-> Absent]

\* The label a well-behaved oracle gives a story (a deterministic stub).
StubLabel(story) == SECTIONS[((story.id - 1) % Len(SECTIONS)) + 1]

-----------------------------------------------------------------------------
(* The oracle's responses.  A per-story response is a transport error, text *)
(* json.loads rejects, JSON that is not an object, or an object whose       *)
(* "section" and "confidence" may each be missing.                          *)

\* What an object of the oracle holds for a story: the stub's label, a label
\* outside SECTIONS or no "section", with a confidence; or no "confidence".
ObjectChoices(story) ==
    {[section |-> sec, confidence |-> c] :
        sec \in {StubLabel(story), OutsideLabel, Absent}, c \in OracleConfidences}
    \cup
    {[section |-> StubLabel(story), confidence |-> Absent]}

StoryResponses(story) ==
    {[kind |-> kd, section |-> Absent, confidence |-> Absent] :
        kd \in {"error", "unparseable", "nonobject"}}
    \cup
    {[kind |-> "object", section |-> o.section, confidence |-> o.confidence] :
        o \in ObjectChoices(story)}

\* One entry of a batch response array: an object or something else.
EntryChoices(story) ==
    {[obj |-> FALSE, section |-> Absent, confidence |-> Absent]}
    \cup
    {[obj |-> TRUE, section |-> o.section, confidence |-> o.confidence] :
        o \in ObjectChoices(story)}

AllEntries(batch) == UNION {EntryChoices(batch[j]) : j \in DOMAIN batch}

\* The first m entries of an array response for batch.
EntrySeqs(batch, m) ==
    {e \in [1..m -> AllEntries(batch)] :
        \A j \in 1..m : e[j] \in EntryChoices(batch[j])}

\* A batch response: a transport error, unparseable text, a JSON object of
\* len keys or a JSON array of len entries.  The entries of an array past the
\* batch's length are never read and are not represented.
BatchResponses(batch) ==
    {[kind |-> kd, len |-> 0, entries |-> <<>>] :
        kd \in {"error", "unparseable"}}
    \cup
    {[kind |-> "object", len |-> n, entries |-> <<>>] : n \in 0..1}
    \cup
    UNION {{[kind |-> "array", len |-> n, entries |-> e] :
                e \in EntrySeqs(batch, Min(n, Len(batch)))} :
           n \in 0..(Len(batch) + 1)}

\* The response answers every story of the batch with the stub's label.
WellFormed(batch, resp) ==
    /\ resp.kind = "array"
    /\ resp.len >= Len(batch)
    /\ \A j \in DOMAIN batch :
          /\ resp.entries[j].obj
          /\ resp.entries[j].section = StubLabel(batch[j])
          /\ resp.entries[j].confidence \in OracleConfidences

-----------------------------------------------------------------------------
(* classify_story: the result dict, for the oracle's response.  The result's *)
(* confidence is Absent when the oracle's object has no "confidence".        *)

\* A faulty variant: the except clause reports the confidence 0.5.
classify_story_half_sure(resp) ==
    IF resp.kind = "object"
    THEN [section |-> IF resp.section \in SectionSet THEN resp.section ELSE "lastly",
          confidence |-> resp.confidence]
    ELSE [section |-> "lastly", confidence |-> MissingConfidence]

classify_story(resp) ==
    IF resp.kind = "object"
    THEN [section |-> IF resp.section \in SectionSet THEN resp.section ELSE "lastly",
          confidence |-> resp.confidence]
    ELSE [section |-> "lastly", confidence |-> FailConfidence]

-----------------------------------------------------------------------------
(* classify_stories_batch *)

\* A faulty variant: the slice takes one story more than max_per_request.
BatchOneMore == SubSeq(stories, i + 1, Min(i + max_per_request + 1, Len(stories)))

\* batch = stories[i:i + max_per_request]
Batch == SubSeq(stories, i + 1, Min(i + max_per_request, Len(stories)))

\* A faulty variant: no guard j < len(classifications), a short array raises IndexError.
EntryRaisesUnguarded(resp, j) ==
    CASE resp.kind = "object" -> TRUE
      [] resp.kind = "array"  -> j > resp.len \/ ~resp.entries[j].obj
      [] OTHER -> TRUE

\* Merging story j of the batch raises: classifications[j] of a dict
\* (KeyError), cls.get of a non-object (AttributeError).
EntryRaises(resp, j) ==
    CASE resp.kind = "object" -> j <= resp.len
      [] resp.kind = "array"  -> j <= resp.len /\ ~resp.entries[j].obj
      [] OTHER -> TRUE

\* The position of the batch at which the try block raises, 0 when it does
\* not.  A transport or parse error raises before the merge loop.
FirstRaise(batch, resp) ==
    IF \E j \in DOMAIN batch : EntryRaises(resp, j)
    THEN CHOOSE j \in DOMAIN batch :
            /\ EntryRaises(resp, j)
            /\ \A h \in 1..(j - 1) : ~EntryRaises(resp, h)
    ELSE 0

\* The copy of story j of the batch the merge loop appends.
Merged(batch, resp, j) ==
    IF j <= resp.len
    THEN [batch[j] EXCEPT
            !.section = Get(resp.entries[j].section, "lastly"),
            !.confidence = Get(resp.entries[j].confidence, MissingConfidence)]
    ELSE [batch[j] EXCEPT
            !.section = "lastly",
            !.confidence = ShortConfidence]

\* The stories the try block appends to results before it ends or raises.
MergedPrefix(batch, resp) ==
    LET r == FirstRaise(batch, resp)
        n == IF r = 0 THEN Len(batch) ELSE r - 1
    IN  [j \in 1..n |-> Merged(batch, resp, j)]

\* The loop over the batches goes on with the next batch, or returns.
NextPc == IF i + max_per_request < Len(stories) THEN "batch" ELSE "done"

ClassifyIdle ==
    /\ stories = <<>> /\ max_per_request = 1 /\ i = 0 /\ k = 0 /\ pc = "idle"
    /\ results = <<>> /\ origin = <<>> /\ calls = <<>>

ClassifyInit ==
    /\ max_per_request \in 1..MaxPerRequest
    /\ \E n \in 0..MaxStories : stories = [j \in 1..n |-> Story(j)]
    /\ i = 0
    /\ k = 0
    /\ pc = IF Len(stories) = 0 THEN "done" ELSE "batch"
    /\ results = <<>>
    /\ origin = <<>>
    /\ calls = <<>>

\* One pass of the try block: the batch call and the merge loop.
BatchCall ==
    /\ pc = "batch"
    /\ \E resp \in BatchResponses(Batch) :
        LET merged == MergedPrefix(Batch, resp) IN
        /\ calls' = Append(calls,
                [call |-> "batch", batch |-> i, story |-> 0, kind |-> resp.kind,
                 answered |-> Min(resp.len, Len(Batch)),
                 objects |-> \A j \in DOMAIN resp.entries : resp.entries[j].obj,
                 wellformed |-> WellFormed(Batch, resp)])
        /\ results' = results \o merged
        /\ origin' = origin \o
                [j \in 1..Len(merged) |->
                    [batch |-> i, story |-> Batch[j].id,
                     via |-> IF j <= resp.len THEN "batch" ELSE "missing",
                     valid |-> j <= resp.len /\ resp.entries[j].section \in SectionSet]]
        /\ IF FirstRaise(Batch, resp) = 0
           THEN /\ pc' = NextPc
                /\ i' = IF NextPc = "batch" THEN i + max_per_request ELSE i
                /\ k' = 0
           ELSE /\ pc' = "fallback"
                /\ i' = i
                /\ k' = 1
    /\ UNCHANGED <<stories, max_per_request>>
    /\ UNCHANGED <<dedupVars, orgVars, fbVars, filterVars, plVars, applyVars, loopVars, reviewVars>>

\* One pass of the except clause's loop: classify_story for story k of the
\* batch.  result["confidence"] raises KeyError out of the except clause.
StoryCall ==
    /\ pc = "fallback"
    /\ \E resp \in StoryResponses(Batch[k]) :
        LET result == classify_story(resp) IN
        /\ calls' = Append(calls,
                [call |-> "story", batch |-> i, story |-> Batch[k].id,
                 kind |-> resp.kind, answered |-> 0, objects |-> FALSE,
                 wellformed |-> FALSE])
        /\ IF result.confidence = Absent
           THEN /\ pc' = "raised"
                /\ UNCHANGED <<i, k, results, origin>>
           ELSE /\ results' = Append(results,
                        [Batch[k] EXCEPT !.section = result.section,
                                         !.confidence = result.confidence])
                /\ origin' = Append(origin,
                        [batch |-> i, story |-> Batch[k].id, via |-> "story",
                         valid |-> resp.kind = "object" /\ resp.section \in SectionSet])
                /\ IF k < Len(Batch)
                   THEN /\ k' = k + 1
                        /\ UNCHANGED <<i, pc>>
                   ELSE /\ pc' = NextPc
                        /\ i' = IF NextPc = "batch" THEN i + max_per_request ELSE i
                        /\ k' = 0
    /\ UNCHANGED <<stories, max_per_request>>
    /\ UNCHANGED <<dedupVars, orgVars, fbVars, filterVars, plVars, applyVars, loopVars, reviewVars>>

ClassifyNext == BatchCall \/ StoryCall

-----------------------------------------------------------------------------
(* Text.  A Python string is the sequence of its characters; Chars gives the *)
(* characters of the strings the model uses.                                 *)

Chars(s) ==
    CASE s = "NJ Transit fares rise" ->
          <<"N", "J", " ", "T", "r", "a", "n", "s", "i", "t", " ", "f", "a",
            "r", "e", "s", " ", "r", "i", "s", "e">>
      [] s = "School board vote" ->
          <<"S", "c", "h", "o", "o", "l", " ", "b", "o", "a", "r", "d", " ",
            "v", "o", "t", "e">>
      [] s = "Governor signs rent bill" ->
          <<"G", "o", "v", "e", "r", "n", "o", "r", " ", "s", "i", "g", "n",
            "s", " ", "r", "e", "n", "t", " ", "b", "i", "l", "l">>
      [] s = "Parent sues school board" ->
          <<"P", "a", "r", "e", "n", "t", " ", "s", "u", "e", "s", " ", "s",
            "c", "h", "o", "o", "l", " ", "b", "o", "a", "r", "d">>
      [] s = "Fatal CRASH closes Turnpike" ->
          <<"F", "a", "t", "a", "l", " ", "C", "R", "A", "S", "H", " ", "c",
            "l", "o", "s", "e", "s", " ", "T", "u", "r", "n", "p", "i", "k",
            "e">>
      [] s = "Budget snapshot released" ->
          <<"B", "u", "d", "g", "e", "t", " ", "s", "n", "a", "p", "s", "h",
            "o", "t", " ", "r", "e", "l", "e", "a", "s", "e", "d">>
      [] s = "NJ Transit" ->
          <<"N", "J", " ", "T", "r", "a", "n", "s", "i", "t">>
      [] s = "SCHOOL" -> <<"S", "C", "H", "O", "O", "L">>
      [] s = "school board" ->
          <<"s", "c", "h", "o", "o", "l", " ", "b", "o", "a", "r", "d">>
      [] s = "governor" -> <<"g", "o", "v", "e", "r", "n", "o", "r">>
      [] s = "legislature" ->
          <<"l", "e", "g", "i", "s", "l", "a", "t", "u", "r", "e">>
      [] s = "election" -> <<"e", "l", "e", "c", "t", "i", "o", "n">>
      [] s = "court" -> <<"c", "o", "u", "r", "t">>
      [] s = "housing" -> <<"h", "o", "u", "s", "i", "n", "g">>
      [] s = "rent" -> <<"r", "e", "n", "t">>
      [] s = "development" ->
          <<"d", "e", "v", "e", "l", "o", "p", "m", "e", "n", "t">>
      [] s = "zoning" -> <<"z", "o", "n", "i", "n", "g">>
      [] s = "school" -> <<"s", "c", "h", "o", "o", "l">>
      [] s = "education" -> <<"e", "d", "u", "c", "a", "t", "i", "o", "n">>
      [] s = "university" ->
          <<"u", "n", "i", "v", "e", "r", "s", "i", "t", "y">>
      [] s = "teacher" -> <<"t", "e", "a", "c", "h", "e", "r">>
      [] s = "health" -> <<"h", "e", "a", "l", "t", "h">>
      [] s = "hospital" -> <<"h", "o", "s", "p", "i", "t", "a", "l">>
      [] s = "covid" -> <<"c", "o", "v", "i", "d">>
      [] s = "medical" -> <<"m", "e", "d", "i", "c", "a", "l">>
      [] s = "climate" -> <<"c", "l", "i", "m", "a", "t", "e">>
      [] s = "environment" ->
          <<"e", "n", "v", "i", "r", "o", "n", "m", "e", "n", "t">>
      [] s = "energy" -> <<"e", "n", "e", "r", "g", "y">>
      [] s = "pollution" -> <<"p", "o", "l", "l", "u", "t", "i", "o", "n">>
      [] s = "carjacked" -> <<"c", "a", "r", "j", "a", "c", "k", "e", "d">>
      [] s = "carjacking" ->
          <<"c", "a", "r", "j", "a", "c", "k", "i", "n", "g">>
      [] s = "robbed" -> <<"r", "o", "b", "b", "e", "d">>
      [] s = "robbery" -> <<"r", "o", "b", "b", "e", "r", "y">>
      [] s = "murder" -> <<"m", "u", "r", "d", "e", "r">>
      [] s = "murdered" -> <<"m", "u", "r", "d", "e", "r", "e", "d">>
      [] s = "homicide" -> <<"h", "o", "m", "i", "c", "i", "d", "e">>
      [] s = "killed" -> <<"k", "i", "l", "l", "e", "d">>
      [] s = "killing" -> <<"k", "i", "l", "l", "i", "n", "g">>
      [] s = "stabbed" -> <<"s", "t", "a", "b", "b", "e", "d">>
      [] s = "stabbing" -> <<"s", "t", "a", "b", "b", "i", "n", "g">>
      [] s = "shot" -> <<"s", "h", "o", "t">>
      [] s = "shooting" -> <<"s", "h", "o", "o", "t", "i", "n", "g">>
      [] s = "assault" -> <<"a", "s", "s", "a", "u", "l", "t">>
      [] s = "assaulted" -> <<"a", "s", "s", "a", "u", "l", "t", "e", "d">>
      [] s = "armed robbery" ->
          <<"a", "r", "m", "e", "d", " ", "r", "o", "b", "b", "e", "r", "y">>
      [] s = "home invasion" ->
          <<"h", "o", "m", "e", " ", "i", "n", "v", "a", "s", "i", "o", "n">>
      [] s = "burglar" -> <<"b", "u", "r", "g", "l", "a", "r">>
      [] s = "burglary" -> <<"b", "u", "r", "g", "l", "a", "r", "y">>
      [] s = "theft" -> <<"t", "h", "e", "f", "t">>
      [] s = "stolen" -> <<"s", "t", "o", "l", "e", "n">>
      [] s = "arson" -> <<"a", "r", "s", "o", "n">>
      [] s = "kidnapped" -> <<"k", "i", "d", "n", "a", "p", "p", "e", "d">>
      [] s = "kidnapping" ->
          <<"k", "i", "d", "n", "a", "p", "p", "i", "n", "g">>
      [] s = "rape" -> <<"r", "a", "p", "e">>
      [] s = "raped" -> <<"r", "a", "p", "e", "d">>
      [] s = "sex assault" ->
          <<"s", "e", "x", " ", "a", "s", "s", "a", "u", "l", "t">>
      [] s = "sexual assault" ->
          <<"s", "e", "x", "u", "a", "l", " ", "a", "s", "s", "a", "u", "l",
            "t">>
      [] s = "manslaughter" ->
          <<"m", "a", "n", "s", "l", "a", "u", "g", "h", "t", "e", "r">>
      [] s = "hit-and-run" ->
          <<"h", "i", "t", "-", "a", "n", "d", "-", "r", "u", "n">>
      [] s = "hit and run" ->
          <<"h", "i", "t", " ", "a", "n", "d", " ", "r", "u", "n">>
      [] s = "drug bust" -> <<"d", "r", "u", "g", " ", "b", "u", "s", "t">>
      [] s = "drug arrest" ->
          <<"d", "r", "u", "g", " ", "a", "r", "r", "e", "s", "t">>
      [] s = "overdose" -> <<"o", "v", "e", "r", "d", "o", "s", "e">>
      [] s = "found dead" ->
          <<"f", "o", "u", "n", "d", " ", "d", "e", "a", "d">>
      [] s = "body found" ->
          <<"b", "o", "d", "y", " ", "f", "o", "u", "n", "d">>
      [] s = "crash" -> <<"c", "r", "a", "s", "h">>
      [] s = "crashed" -> <<"c", "r", "a", "s", "h", "e", "d">>
      [] s = "fatal crash" ->
          <<"f", "a", "t", "a", "l", " ", "c", "r", "a", "s", "h">>
      [] s = "deadly crash" ->
          <<"d", "e", "a", "d", "l", "y", " ", "c", "r", "a", "s", "h">>
      [] s = "wrong-way driver" ->
          <<"w", "r", "o", "n", "g", "-", "w", "a", "y", " ", "d", "r", "i",
            "v", "e", "r">>
      [] s = "car accident" ->
          <<"c", "a", "r", " ", "a", "c", "c", "i", "d", "e", "n", "t">>
      [] s = "vehicle accident" ->
          <<"v", "e", "h", "i", "c", "l", "e", " ", "a", "c", "c", "i", "d",
            "e", "n", "t">>
      [] s = "truck crash" ->
          <<"t", "r", "u", "c", "k", " ", "c", "r", "a", "s", "h">>
      [] s = "bus crash" -> <<"b", "u", "s", " ", "c", "r", "a", "s", "h">>
      [] s = "pedestrian struck" ->
          <<"p", "e", "d", "e", "s", "t", "r", "i", "a", "n", " ", "s", "t",
            "r", "u", "c", "k">>
      [] s = "pedestrian hit" ->
          <<"p", "e", "d", "e", "s", "t", "r", "i", "a", "n", " ", "h", "i",
            "t">>
      [] s = "pedestrian killed" ->
          <<"p", "e", "d", "e", "s", "t", "r", "i", "a", "n", " ", "k", "i",
            "l", "l", "e", "d">>
      [] s = "motorcyclist killed" ->
          <<"m", "o", "t", "o", "r", "c", "y", "c", "l", "i", "s", "t", " ",
            "k", "i", "l", "l", "e", "d">>
      [] s = "cyclist killed" ->
          <<"c", "y", "c", "l", "i", "s", "t", " ", "k", "i", "l", "l", "e",
            "d">>
      [] s = "dies in crash" ->
          <<"d", "i", "e", "s", " ", "i", "n", " ", "c", "r", "a", "s", "h">>
      [] s = "killed in crash" ->
          <<"k", "i", "l", "l", "e", "d", " ", "i", "n", " ", "c", "r", "a",
            "s", "h">>
      [] s = "injured in crash" ->
          <<"i", "n", "j", "u", "r", "e", "d", " ", "i", "n", " ", "c", "r",
            "a", "s", "h">>
      [] s = "multi-car" -> <<"m", "u", "l", "t", "i", "-", "c", "a", "r">>
      [] s = "multi-vehicle" ->
          <<"m", "u", "l", "t", "i", "-", "v", "e", "h", "i", "c", "l", "e">>
      [] s = "pileup" -> <<"p", "i", "l", "e", "u", "p">>
      [] s = "pile-up" -> <<"p", "i", "l", "e", "-", "u", "p">>
      [] s = "rollover" -> <<"r", "o", "l", "l", "o", "v", "e", "r">>
      [] s = "house fire" ->
          <<"h", "o", "u", "s", "e", " ", "f", "i", "r", "e">>
      [] s = "apartment fire" ->
          <<"a", "p", "a", "r", "t", "m", "e", "n", "t", " ", "f", "i", "r",
            "e">>
      [] s = "building fire" ->
          <<"b", "u", "i", "l", "d", "i", "n", "g", " ", "f", "i", "r", "e">>
      [] s = "blaze kills" ->
          <<"b", "l", "a", "z", "e", " ", "k", "i", "l", "l", "s">>
      [] s = "fire kills" ->
          <<"f", "i", "r", "e", " ", "k", "i", "l", "l", "s">>
      [] s = "explosion kills" ->
          <<"e", "x", "p", "l", "o", "s", "i", "o", "n", " ", "k", "i", "l",
            "l", "s">>
      [] s = "gas explosion" ->
          <<"g", "a", "s", " ", "e", "x", "p", "l", "o", "s", "i", "o", "n">>
      [] s = "drowning" -> <<"d", "r", "o", "w", "n", "i", "n", "g">>
      [] s = "drowned" -> <<"d", "r", "o", "w", "n", "e", "d">>
      [] s = "missing person" ->
          <<"m", "i", "s", "s", "i", "n", "g", " ", "p", "e", "r", "s", "o",
            "n">>
      [] s = "amber alert" ->
          <<"a", "m", "b", "e", "r", " ", "a", "l", "e", "r", "t">>
      [] s = "child abduction" ->
          <<"c", "h", "i", "l", "d", " ", "a", "b", "d", "u", "c", "t", "i",
            "o", "n">>
      [] s = "   " -> <<" ", " ", " ">>
      [] s = "done" -> <<"d", "o", "n", "e">>
      [] s = " DONE " -> <<" ", "D", "O", "N", "E", " ">>
      [] s = "refresh" -> <<"r", "e", "f", "r", "e", "s", "h">>
      [] s = " Refresh" -> <<" ", "R", "e", "f", "r", "e", "s", "h">>
      [] s = "move NJ Transit to politics" ->
          <<"m", "o", "v", "e", " ", "N", "J", " ", "T", "r", "a", "n", "s",
            "i", "t", " ", "t", "o", " ", "p", "o", "l", "i", "t", "i", "c",
            "s">>
      [] s = "done!" -> <<"d", "o", "n", "e", "!">>
      [] s = "1" -> <<"1">>
      [] s = "s" -> <<"s">>
      [] s = " S " -> <<" ", "S", " ">>
      [] s = "School board <b>vote</b> " ->
          <<"S", "c", "h", "o", "o", "l", " ", "b", "o", "a", "r", "d", " ",
            "<", "b", ">", "v", "o", "t", "e", "<", "/", "b", ">", " ">>
      [] s = "Unknown" -> <<"U", "n", "k", "n", "o", "w", "n">>
      [] s = " WHYY " -> <<" ", "W", "H", "Y", "Y", " ">>
      [] s = "NJ Spotlight News" ->
          <<"N", "J", " ", "S", "p", "o", "t", "l", "i", "g", "h", "t", " ",
            "N", "e", "w", "s">>
      [] s = "NJ.com" -> <<"N", "J", ".", "c", "o", "m">>
      [] s = "www." -> <<"w", "w", "w", ".">>
      [] s = "www.nj.com" ->
          <<"w", "w", "w", ".", "n", "j", ".", "c", "o", "m">>
      [] s = "nj.example" ->
          <<"n", "j", ".", "e", "x", "a", "m", "p", "l", "e">>
      [] s = "https://www.nj.com/a" ->
          <<"h", "t", "t", "p", "s", ":", "/", "/", "w", "w", "w", ".", "n",
            "j", ".", "c", "o", "m", "/", "a">>
      [] s = "https://nj.example/b" ->
          <<"h", "t", "t", "p", "s", ":", "/", "/", "n", "j", ".", "e", "x",
            "a", "m", "p", "l", "e", "/", "b">>
      [] s = "https://nj.example/c" ->
          <<"h", "t", "t", "p", "s", ":", "/", "/", "n", "j", ".", "e", "x",
            "a", "m", "p", "l", "e", "/", "c">>
      [] s = "nj.com" -> <<"n", "j", ".", "c", "o", "m">>
      [] s = "njspotlightnews.org" ->
          <<"n", "j", "s", "p", "o", "t", "l", "i", "g", "h", "t", "n", "e",
            "w", "s", ".", "o", "r", "g">>
      [] s = "newjerseymonitor.com" ->
          <<"n", "e", "w", "j", "e", "r", "s", "e", "y", "m", "o", "n", "i",
            "t", "o", "r", ".", "c", "o", "m">>
      [] s = "newjerseyglobe.com" ->
          <<"n", "e", "w", "j", "e", "r", "s", "e", "y", "g", "l", "o", "b",
            "e", ".", "c", "o", "m">>
      [] s = "northjersey.com" ->
          <<"n", "o", "r", "t", "h", "j", "e", "r", "s", "e", "y", ".", "c",
            "o", "m">>
      [] s = "app.com" -> <<"a", "p", "p", ".", "c", "o", "m">>
      [] s = "pressofatlanticcity.com" ->
          <<"p", "r", "e", "s", "s", "o", "f", "a", "t", "l", "a", "n", "t",
            "i", "c", "c", "i", "t", "y", ".", "c", "o", "m">>
      [] s = "njbiz.com" -> <<"n", "j", "b", "i", "z", ".", "c", "o", "m">>
      [] s = "roi-nj.com" ->
          <<"r", "o", "i", "-", "n", "j", ".", "c", "o", "m">>
      [] s = "trentonian.com" ->
          <<"t", "r", "e", "n", "t", "o", "n", "i", "a", "n", ".", "c", "o",
            "m">>
      [] s = "montclairlocal.news" ->
          <<"m", "o", "n", "t", "c", "l", "a", "i", "r", "l", "o", "c", "a",
            "l", ".", "n", "e", "w", "s">>
      [] s = "villagegreennj.com" ->
          <<"v", "i", "l", "l", "a", "g", "e", "g", "r", "e", "e", "n", "n",
            "j", ".", "c", "o", "m">>
      [] s = "baristanet.com" ->
          <<"b", "a", "r", "i", "s", "t", "a", "n", "e", "t", ".", "c", "o",
            "m">>
      [] s = "hudsonreporter.com" ->
          <<"h", "u", "d", "s", "o", "n", "r", "e", "p", "o", "r", "t", "e",
            "r", ".", "c", "o", "m">>
      [] s = "jerseydigs.com" ->
          <<"j", "e", "r", "s", "e", "y", "d", "i", "g", "s", ".", "c", "o",
            "m">>
      [] s = "morristowngreen.com" ->
          <<"m", "o", "r", "r", "i", "s", "t", "o", "w", "n", "g", "r", "e",
            "e", "n", ".", "c", "o", "m">>
      [] s = "unionnewsdaily.com" ->
          <<"u", "n", "i", "o", "n", "n", "e", "w", "s", "d", "a", "i", "l",
            "y", ".", "c", "o", "m">>
      [] s = "mercerme.com" ->
          <<"m", "e", "r", "c", "e", "r", "m", "e", ".", "c", "o", "m">>
      [] s = "planetprinceton.com" ->
          <<"p", "l", "a", "n", "e", "t", "p", "r", "i", "n", "c", "e", "t",
            "o", "n", ".", "c", "o", "m">>
      [] s = "jerseyshoreonline.com" ->
          <<"j", "e", "r", "s", "e", "y", "s", "h", "o", "r", "e", "o", "n",
            "l", "i", "n", "e", ".", "c", "o", "m">>
      [] s = "njpen.com" -> <<"n", "j", "p", "e", "n", ".", "c", "o", "m">>
      [] s = "njarts.net" ->
          <<"n", "j", "a", "r", "t", "s", ".", "n", "e", "t">>
      [] s = "njedreport.com" ->
          <<"n", "j", "e", "d", "r", "e", "p", "o", "r", "t", ".", "c", "o",
            "m">>
      [] s = "insidernj.com" ->
          <<"i", "n", "s", "i", "d", "e", "r", "n", "j", ".", "c", "o", "m">>
      [] s = "whyy.org" -> <<"w", "h", "y", "y", ".", "o", "r", "g">>
      [] s = "gothamist.com" ->
          <<"g", "o", "t", "h", "a", "m", "i", "s", "t", ".", "c", "o", "m">>
      [] s = "tapinto.net" ->
          <<"t", "a", "p", "i", "n", "t", "o", ".", "n", "e", "t">>
      [] s = "njdemocrat.substack.com" ->
          <<"n", "j", "d", "e", "m", "o", "c", "r", "a", "t", ".", "s", "u",
            "b", "s", "t", "a", "c", "k", ".", "c", "o", "m">>
      [] s = "echonewstv.com" ->
          <<"e", "c", "h", "o", "n", "e", "w", "s", "t", "v", ".", "c", "o",
            "m">>
      [] s = "" -> <<>>

\* str.lower() of one character
LowerChar(c) ==
    CASE c = "A" -> "a"
      [] c = "B" -> "b"
      [] c = "C" -> "c"
      [] c = "D" -> "d"
      [] c = "E" -> "e"
      [] c = "F" -> "f"
      [] c = "G" -> "g"
      [] c = "H" -> "h"
      [] c = "I" -> "i"
      [] c = "J" -> "j"
      [] c = "K" -> "k"
      [] c = "L" -> "l"
      [] c = "M" -> "m"
      [] c = "N" -> "n"
      [] c = "O" -> "o"
      [] c = "P" -> "p"
      [] c = "Q" -> "q"
      [] c = "R" -> "r"
      [] c = "S" -> "s"
      [] c = "T" -> "t"
      [] c = "U" -> "u"
      [] c = "V" -> "v"
      [] c = "W" -> "w"
      [] c = "X" -> "x"
      [] c = "Y" -> "y"
      [] c = "Z" -> "z"
      [] OTHER -> c

\* str.lower()
Lower(t) == [n \in DOMAIN t |-> LowerChar(t[n])]

\* kw in text (substring)
Contains(kw, text) ==
    \E n \in 0..(Len(text) - Len(kw)) : SubSeq(text, n + 1, n + Len(kw)) = kw

\* story.get("headline", story.get("title", "")).lower()
HeadlineLower(story) == Lower(Chars(story.headline))

-----------------------------------------------------------------------------
(* main.py: deduplicate_stories *)

\* A faulty variant: no check that the url was seen.
DedupStepKeepAll(acc, story) ==
    LET url == Get(story.url, "") IN
    IF url # ""
    THEN [seen_urls |-> acc.seen_urls \cup {url}, unique |-> Append(acc.unique, story)]
    ELSE acc

\* One pass of the loop body: url = story.get("url", "");
\* if url and url not in seen_urls: add it and keep the story.
DedupStep(acc, story) ==
    LET url == Get(story.url, "") IN
    IF url # "" /\ url \notin acc.seen_urls
    THEN [seen_urls |-> acc.seen_urls \cup {url}, unique |-> Append(acc.unique, story)]
    ELSE acc

RECURSIVE DedupLoop(_, _)
DedupLoop(acc, rest) ==
    IF rest = <<>> THEN acc
    ELSE DedupLoop(DedupStep(acc, Head(rest)), Tail(rest))

\* A faulty variant: the loop starts at the second story.
deduplicate_stories_from_second(list) ==
    DedupLoop([seen_urls |-> {}, unique |-> <<>>],
              IF list = <<>> THEN list ELSE Tail(list)).unique

deduplicate_stories(list) ==
    DedupLoop([seen_urls |-> {}, unique |-> <<>>], list).unique

\* The stories deduplicate_stories is tried on: two share a url, one has an
\* empty url and one has none.
DedupPool ==
    { [id |-> 1, headline |-> "NJ Transit fares rise", url |-> "https://nj.example/a",
       section |-> "politics", confidence |-> "0.9"],
      [id |-> 2, headline |-> "School board vote", url |-> "https://nj.example/a",
       section |-> "education", confidence |-> "0.9"],
      [id |-> 3, headline |-> "Governor signs rent bill", url |-> "https://nj.example/b",
       section |-> "politics", confidence |-> "0.9"],
      [id |-> 4, headline |-> "Parent sues school board", url |-> "",
       section |-> "education", confidence |-> "0.9"],
      [id |-> 5, headline |-> "School board vote", url |-> Absent,
       section |-> "education", confidence |-> "0.9"] }

DedupIdle ==
    /\ dd_stories = <<>> /\ dd_unique = <<>> /\ dd_first = <<>> /\ dd_pc = "idle"

DedupInit ==
    /\ \E n \in 0..MaxDedupStories : dd_stories \in [1..n -> DedupPool]
    /\ dd_unique = <<>>
    /\ dd_first = <<>>
    /\ dd_pc = "start"

\* unique = deduplicate_stories(stories)
Deduplicate ==
    /\ dd_pc = "start"
    /\ dd_unique' = deduplicate_stories(dd_stories)
    /\ dd_first' = dd_unique'
    /\ dd_pc' = "once"
    /\ UNCHANGED dd_stories
    /\ UNCHANGED <<classVars, orgVars, fbVars, filterVars, plVars, applyVars, loopVars, reviewVars>>

\* deduplicate_stories(unique): the function run on its own output
DeduplicateAgain ==
    /\ dd_pc = "once"
    /\ dd_unique' = deduplicate_stories(dd_unique)
    /\ dd_pc' = "twice"
    /\ UNCHANGED <<dd_stories, dd_first>>
    /\ UNCHANGED <<classVars, orgVars, fbVars, filterVars, plVars, applyVars, loopVars, reviewVars>>

DedupNext == Deduplicate \/ DeduplicateAgain

-----------------------------------------------------------------------------
(* main.py: organize_by_section *)

\* the keyword groups of the overflow's if/elif chain, in its order
OverflowGroups ==
    << [section |-> "politics",
        keywords |-> <<"governor", "legislature", "election", "court">>],
       [section |-> "housing",
        keywords |-> <<"housing", "rent", "development", "zoning">>],
       [section |-> "education",
        keywords |-> <<"school", "education", "university", "teacher">>],
       [section |-> "health",
        keywords |-> <<"health", "hospital", "covid", "medical">>],
       [section |-> "environment",
        keywords |-> <<"climate", "environment", "energy", "pollution">>] >>

\* any(kw in headline for kw in keywords)
AnyKeyword(keywords, headline) ==
    \E n \in DOMAIN keywords : Contains(Chars(keywords[n]), headline)

\* A faulty variant: the branches are tried in the opposite order.
OverflowSectionLastGroup(story) ==
    LET headline == HeadlineLower(story)
        hits == {g \in DOMAIN OverflowGroups :
                    AnyKeyword(OverflowGroups[g].keywords, headline)}
    IN  IF hits = {} THEN "lastly"
        ELSE OverflowGroups[CHOOSE g \in hits : \A h \in hits : g >= h].section

\* The section the if/elif chain appends an overflow story to.
OverflowSection(story) ==
    LET headline == HeadlineLower(story)
        hits == {g \in DOMAIN OverflowGroups :
                    AnyKeyword(OverflowGroups[g].keywords, headline)}
    IN  IF hits = {} THEN "lastly"
        ELSE OverflowGroups[CHOOSE g \in hits : \A h \in hits : g <= h].section

\* A label the oracle gave as a JSON array: classify_stories_batch copies it
\* into the story as it is, and a list cannot be looked up in a dict.
ListLabel == "['politics'] (a list)"

Hashable(label) == label # ListLabel

\* "section in sections" raises TypeError for a label that is not hashable
BucketRaises(list) ==
    \E n \in DOMAIN list : ~Hashable(Get(list[n].section, "lastly"))

\* The section the first loop appends a story to.
Bucket(story) ==
    LET section == Get(story.section, "lastly") IN
    IF section \in SectionSet THEN section ELSE "lastly"

\* sections after the first loop
Bucketed(list) ==
    [section \in SectionSet |-> SelectSeq(list, LAMBDA story : Bucket(story) = section)]

\* A faulty variant: the overflow is moved on but top_stories is not cut.
TopKeptUncut(top, max) == top

\* sections["top_stories"][:max_top_stories]
TopKept(top, max) == SubSeq(top, 1, Min(max, Len(top)))

\* A faulty variant: the overflow starts one story late.
OverflowSkipsOne(top, max) ==
    IF Len(top) > max THEN SubSeq(top, max + 2, Len(top)) ELSE <<>>

\* sections["top_stories"][max_top_stories:], when the limit is exceeded
Overflow(top, max) ==
    IF Len(top) > max THEN SubSeq(top, max + 1, Len(top)) ELSE <<>>

organize_by_section(list, max) ==
    LET first == Bucketed(list)
        top == first["top_stories"]
        overflow == Overflow(top, max)
    IN  [section \in SectionSet |->
            IF section = "top_stories"
            THEN IF Len(top) > max THEN TopKept(top, max) ELSE top
            ELSE first[section] \o
                 SelectSeq(overflow, LAMBDA story : OverflowSection(story) = section)]

Headlines ==
    {"NJ Transit fares rise", "School board vote",
     "Governor signs rent bill", "Parent sues school board"}

\* the url of the story with this id
UrlOf(id) ==
    CASE id = 1 -> "https://nj.example/a"
      [] id = 2 -> "https://nj.example/b"
      [] id = 3 -> "https://nj.example/c"
      [] OTHER  -> "https://nj.example/d"

\* The classified stories organize_by_section is tried on: a top story with
\* any headline, or a story with another label of SECTIONS, a label outside
\* SECTIONS, a label that is a JSON array, or no label.
OrgChoices(id) ==
    {[id |-> id, headline |-> h, url |-> UrlOf(id),
      section |-> "top_stories", confidence |-> "0.9"] : h \in Headlines}
    \cup
    {[id |-> id, headline |-> "School board vote", url |-> UrlOf(id),
      section |-> l, confidence |-> "0.9"] :
        l \in {"politics", "skip", OutsideLabel, ListLabel, Absent}}

OrgLists(n) ==
    {list \in [1..n -> UNION {OrgChoices(id) : id \in 1..n}] :
        \A j \in 1..n : list[j].id = j}

OrgIdle ==
    /\ org_stories = <<>> /\ max_top_stories = 0
    /\ org_sections = <<>> /\ org_pc = "idle"

OrgInit ==
    /\ \E n \in 0..MaxOrgStories : org_stories \in OrgLists(n)
    /\ max_top_stories \in 0..MaxTop
    /\ org_sections = <<>>
    /\ org_pc = "start"

\* sections = organize_by_section(unique, max_top_stories); an exception of
\* the first loop leaves the function, and no map is returned
Organize ==
    /\ org_pc = "start"
    /\ IF BucketRaises(org_stories)
       THEN /\ org_pc' = "raised"
            /\ UNCHANGED org_sections
       ELSE /\ org_sections' = organize_by_section(org_stories, max_top_stories)
            /\ org_pc' = "organized"
    /\ UNCHANGED <<org_stories, max_top_stories>>
    /\ UNCHANGED <<classVars, dedupVars, fbVars, filterVars, plVars, applyVars, loopVars, reviewVars>>

OrgNext == Organize

-----------------------------------------------------------------------------
(* workflow.py: process_feedback *)

\* organize_by_section's default max_top_stories
DefaultMaxTop == 6

\* Python truth of a string or a missing key
Truthy(v) == v # Absent /\ v # ""

\* A faulty variant: the last matching story is taken.
FirstMatchLast(list, fragment) ==
    LET hits == {n \in DOMAIN list : Contains(fragment, HeadlineLower(list[n]))}
    IN  IF hits = {} THEN 0 ELSE CHOOSE n \in hits : \A m \in hits : n >= m

\* The position in list of the first story whose lower-cased headline
\* contains fragment, 0 when there is none.
FirstMatch(list, fragment) ==
    LET hits == {n \in DOMAIN list : Contains(fragment, HeadlineLower(list[n]))}
    IN  IF hits = {} THEN 0 ELSE CHOOSE n \in hits : \A m \in hits : n <= m

\* A faulty variant: the story stays in the section it is moved from.
RemoveAtKeeps(list, n) == list

\* list.remove(list[n]), for the first match n: no equal story precedes it
RemoveAt(list, n) == SubSeq(list, 1, n - 1) \o SubSeq(list, n + 1, Len(list))

\* sections.get(from_section, [])
SectionOf(sections, name) ==
    IF name \in DOMAIN sections THEN sections[name] ELSE <<>>

\* A faulty variant: a section the map does not have is not created.
WithSectionKnownOnly(sections, name) == sections

\* if to_section not in sections: sections[to_section] = []
WithSection(sections, name) ==
    IF name \in DOMAIN sections THEN sections
    ELSE [s \in DOMAIN sections \cup {name} |->
            IF s = name THEN <<>> ELSE sections[s]]

\* A faulty variant: the section moved to is created before the search.
ApplyActionCreatesTarget(sections, action) ==
    LET fragment == Lower(Chars(Get(action.headline_contains, "")))
        from == action.from_section
        to == action.to_section
        list == SectionOf(sections, from)
        n == FirstMatch(list, fragment)
    IN  CASE action.action = "note" -> sections
          [] action.action = "move" /\ Truthy(from) /\ Truthy(to) ->
                IF n = 0 THEN WithSection(sections, to)
                ELSE LET removed == [sections EXCEPT ![from] = RemoveAt(list, n)]
                     IN  [WithSection(removed, to) EXCEPT ![to] = Append(@, list[n])]
          [] action.action = "remove" /\ Truthy(from) ->
                IF n = 0 THEN sections
                ELSE [sections EXCEPT ![from] = RemoveAt(list, n)]
          [] OTHER -> sections

\* The body of the loop over the actions, for an action that is a dict.
ApplyAction(sections, action) ==
    LET fragment == Lower(Chars(Get(action.headline_contains, "")))
        from == action.from_section
        to == action.to_section
        list == SectionOf(sections, from)
        n == FirstMatch(list, fragment)
    IN  CASE action.action = "note" -> sections
          [] action.action = "move" /\ Truthy(from) /\ Truthy(to) ->
                IF n = 0 THEN sections
                ELSE LET removed == [sections EXCEPT ![from] = RemoveAt(list, n)]
                     IN  [WithSection(removed, to) EXCEPT ![to] = Append(@, list[n])]
          [] action.action = "remove" /\ Truthy(from) ->
                IF n = 0 THEN sections
                ELSE [sections EXCEPT ![from] = RemoveAt(list, n)]
          [] OTHER -> sections

\* The action raises TypeError, a section given as a JSON array being no
\* dict key: sections.get(from_section, []) before the search, or
\* 'to_section not in sections' once the matching story is found.
ActionRaises(sections, action) ==
    LET fragment == Lower(Chars(Get(action.headline_contains, "")))
        from == action.from_section
        to == action.to_section
        n == FirstMatch(SectionOf(sections, from), fragment)
    IN  CASE action.action = "move" /\ Truthy(from) /\ Truthy(to) ->
                ~Hashable(from) \/ (n # 0 /\ ~Hashable(to))
          [] action.action = "remove" /\ Truthy(from) -> ~Hashable(from)
          [] OTHER -> FALSE

\* The map at the moment the action raises: a move that found its story has
\* taken it out of from_section (sections[from_section].remove(story)) and
\* has not appended it yet.
Interrupted(sections, action) ==
    LET fragment == Lower(Chars(Get(action.headline_contains, "")))
        from == action.from_section
        list == SectionOf(sections, from)
        n == FirstMatch(list, fragment)
    IN  IF Hashable(from) /\ n # 0
        THEN [sections EXCEPT ![from] = RemoveAt(list, n)]
        ELSE sections

\* The loop over the actions: action.get raises AttributeError on an entry
\* that is no dict, an action may raise TypeError, and the except clause
\* returns sections as it is then.
RECURSIVE ApplyActions(_, _)
ApplyActions(sections, actions) ==
    IF actions = <<>> THEN [sections |-> sections, error |-> FALSE, raised |-> FALSE]
    ELSE IF ~Head(actions).dict
         THEN [sections |-> sections, error |-> TRUE, raised |-> FALSE]
    ELSE IF ActionRaises(sections, Head(actions))
         THEN [sections |-> Interrupted(sections, Head(actions)),
               error |-> TRUE, raised |-> FALSE]
    ELSE ApplyActions(ApplyAction(sections, Head(actions)), Tail(actions))

\* A section name the oracle gave as a JSON number: a dict key that is no str.
NumberFive == "5 (a number)"

IsStr(name) == name # NumberFive

\* The summary of the sections, built before the try statement:
\* section_name.upper(), for each section that holds stories, raises
\* AttributeError when the name is no str.
SummaryRaises(sections) ==
    \E name \in DOMAIN sections : sections[name] # <<>> /\ ~IsStr(name)

\* A faulty variant: the except clause returns fresh, empty sections.
process_feedback_reset(sections, resp) ==
    IF SummaryRaises(sections)
    THEN [sections |-> sections, error |-> FALSE, raised |-> TRUE]
    ELSE IF resp.kind # "object"
    THEN [sections |-> [s \in DOMAIN sections |-> <<>>], error |-> TRUE, raised |-> FALSE]
    ELSE ApplyActions(sections, resp.actions)

\* What process_feedback does for the oracle's response: the dict it returns,
\* whether it got there through its except clause, and whether an exception
\* left the function instead (raised; sections is then the argument as it
\* is).  A response that is no JSON object raises inside the try statement,
\* before the loop (the call, json.loads, instructions.get).
process_feedback(sections, resp) ==
    IF SummaryRaises(sections)
    THEN [sections |-> sections, error |-> FALSE, raised |-> TRUE]
    ELSE IF resp.kind # "object"
    THEN [sections |-> sections, error |-> TRUE, raised |-> FALSE]
    ELSE ApplyActions(sections, resp.actions)

Move(fragment, from, to) ==
    [dict |-> TRUE, action |-> "move", headline_contains |-> fragment,
     from_section |-> from, to_section |-> to, message |-> Absent]

Remove(fragment, from) ==
    [dict |-> TRUE, action |-> "remove", headline_contains |-> fragment,
     from_section |-> from, to_section |-> Absent, message |-> Absent]

Note(message) ==
    [dict |-> TRUE, action |-> "note", headline_contains |-> Absent,
     from_section |-> Absent, to_section |-> Absent, message |-> message]

\* an entry of the "actions" array that is no JSON object
NonDict ==
    [dict |-> FALSE, action |-> Absent, headline_contains |-> Absent,
     from_section |-> Absent, to_section |-> Absent, message |-> Absent]

\* The entries of the "actions" array the oracle is tried with: moves and
\* removes between known and unknown sections, a note, and an entry that is
\* no JSON object.
ActionChoices ==
    { Move("NJ Transit", "top_stories", "politics"),
      Move("school", "top_stories", "politics"),
      Move("school", "politics", "top_stories"),
      Move("school", "top_stories", "opinion"),
      Move("school", "opinion", "politics"),
      Remove("NJ Transit", "top_stories"),
      Remove("school", "politics"),
      Note("Cannot do that"),
      NonDict }

\* The oracle's responses: a transport error, text json.loads rejects, JSON
\* that is no object, or an object with an "actions" array.
FeedbackResponses ==
    {[kind |-> kd, actions |-> <<>>] : kd \in {"error", "unparseable", "nonobject"}}
    \cup
    UNION {{[kind |-> "object", actions |-> a] : a \in [1..n -> ActionChoices]} :
           n \in 0..MaxActions}

\* The classified stories the feedback runs start from.
FeedbackStories ==
    {list \in [1..3 -> [id : 1..3, headline : Headlines, url : {UrlOf(1), UrlOf(2), UrlOf(3)},
                        section : {"top_stories", "politics"}, confidence : {"0.9"}]] :
        /\ \A j \in 1..3 : list[j].id = j /\ list[j].url = UrlOf(j)
        /\ list[1].headline = "NJ Transit fares rise"
        /\ list[2].headline = "School board vote"
        /\ list[3].headline = "Parent sues school board"}

FeedbackIdle ==
    /\ fb_sections = <<>> /\ fb_before = <<>> /\ fb_kind = "idle"
    /\ fb_error = FALSE /\ fb_round = 0

FeedbackInit ==
    /\ \E list \in FeedbackStories :
          fb_sections = organize_by_section(list, DefaultMaxTop)
    /\ fb_before = fb_sections
    /\ fb_kind = "none"
    /\ fb_error = FALSE
    /\ fb_round = 0

\* sections = process_feedback(sections, feedback, all_stories)
Feedback ==
    /\ fb_round < MaxRounds
    /\ \E resp \in FeedbackResponses :
        LET r == process_feedback(fb_sections, resp) IN
        /\ fb_sections' = r.sections
        /\ fb_before' = fb_sections
        /\ fb_kind' = resp.kind
        /\ fb_error' = r.error
        /\ fb_round' = fb_round + 1
    /\ UNCHANGED <<classVars, dedupVars, orgVars, filterVars, plVars, applyVars, loopVars, reviewVars>>

FeedbackNext == Feedback

-----------------------------------------------------------------------------
(* workflow.py: process_feedback, one action at a time.  The oracle answers *)
(* with a JSON object of one action, or of notes only, and the call is      *)
(* repeated on the sections it returned.                                    *)

\* A faulty variant: the line printed for a note is its action type.
NoteLineType(action) == action.action

\* print(f"    Note: {action.get('message', '')}"): the text after "Note: "
NoteLine(action) == Get(action.message, "")

\* The texts the loop over the actions prints for the notes, in order; the
\* loop ends at an entry that is no dict.
RECURSIVE PrintedNotes(_)
PrintedNotes(actions) ==
    IF actions = <<>> \/ ~Head(actions).dict THEN <<>>
    ELSE IF Head(actions).action = "note"
         THEN <<NoteLine(Head(actions))>> \o PrintedNotes(Tail(actions))
         ELSE PrintedNotes(Tail(actions))

\* The note actions the oracle is tried with: with and without a message.
NoteChoices == {Note("Cannot do that"), Note("No such story"), Note(Absent)}

\* The single actions the oracle is tried with: fragments in either case,
\* with one match, several matches and none, a missing fragment, known and
\* unknown sections on either side, a move within one section, a move into
\* "top_stories", a move whose to_section is a JSON array.
SingleActions ==
    { Move("NJ Transit", "top_stories", "politics"),
      Move("SCHOOL", "top_stories", "politics"),
      Move("school", "politics", "politics"),
      Move("school", "top_stories", "opinion"),
      Move("school", "opinion", "politics"),
      Move("zoning", "top_stories", "opinion"),
      Move("school", "", "politics"),
      Move("school", "politics", "top_stories"),
      Move("school", "top_stories", ListLabel),
      Remove("SCHOOL", "top_stories"),
      Remove(Absent, "politics"),
      Remove("zoning", "politics"),
      Remove("school", "opinion") }
    \cup NoteChoices

\* The "actions" arrays of the responses: one action, or two notes.
ActionResponses ==
    {<<a>> : a \in SingleActions} \cup {<<a, b>> : a, b \in NoteChoices}

ApplyIdle == ap_sections = <<>> /\ ap_log = <<>> /\ ap_max = 0

\* sections = organize_by_section(unique), with the default capacity or a
\* smaller one
ApplyInit ==
    /\ ap_max \in {MaxTop, DefaultMaxTop}
    /\ \E list \in FeedbackStories :
          ap_sections = organize_by_section(list, ap_max)
    /\ ap_log = <<>>

\* sections = process_feedback(sections, feedback, all_stories), the oracle
\* answering with one of ActionResponses
ApplyResponse ==
    /\ Len(ap_log) < MaxApplies
    /\ \E actions \in ActionResponses :
        LET r == process_feedback(ap_sections, [kind |-> "object", actions |-> actions])
        IN  /\ ap_sections' = r.sections
            /\ UNCHANGED ap_max
            /\ ap_log' = Append(ap_log, [actions |-> actions,
                                         before |-> ap_sections,
                                         after |-> r.sections,
                                         error |-> r.error,
                                         raised |-> r.raised,
                                         printed |-> PrintedNotes(actions)])
    /\ UNCHANGED <<classVars, dedupVars, orgVars, fbVars, filterVars, plVars, loopVars, reviewVars>>

ApplyNext == ApplyResponse

-----------------------------------------------------------------------------
(* html_formatter.py: build_newsletter.  The template is a fixed text with  *)
(* one placeholder per section; the newsletter is given by the items that  *)
(* replace each placeholder.                                                *)

\* format_section_stories' default max_stories
MaxSectionStories == 20

IsSpace(c) == c \in {" ", "\t", "\n", "\r"}

\* str.strip() on the characters of a string
RECURSIVE StripLeft(_)
StripLeft(t) == IF t # <<>> /\ IsSpace(Head(t)) THEN StripLeft(Tail(t)) ELSE t

RECURSIVE StripRight(_)
StripRight(t) ==
    IF t # <<>> /\ IsSpace(t[Len(t)]) THEN StripRight(SubSeq(t, 1, Len(t) - 1)) ELSE t

Strip(t) == StripRight(StripLeft(t))

\* re.sub(r'<[^>]+>', '', headline): a "<" starts a tag when the first ">"
\* after it exists and is not the next character
RECURSIVE RemoveTags(_)
RemoveTags(t) ==
    IF t = <<>> THEN <<>>
    ELSE LET closes == {n \in 2..Len(t) : t[n] = ">"}
             first == CHOOSE n \in closes : \A m \in closes : n <= m
         IN  IF Head(t) = "<" /\ closes # {} /\ first > 2
             THEN RemoveTags(SubSeq(t, first + 1, Len(t)))
             ELSE <<Head(t)>> \o RemoveTags(Tail(t))

\* text.replace(sub, "")
RECURSIVE RemoveAll(_, _)
RemoveAll(sub, t) ==
    IF Len(t) < Len(sub) THEN t
    ELSE IF SubSeq(t, 1, Len(sub)) = sub
         THEN RemoveAll(sub, SubSeq(t, Len(sub) + 1, Len(t)))
         ELSE <<Head(t)>> \o RemoveAll(sub, Tail(t))

\* the <li> element: the texts put into it
format_story(headline, url, source) ==
    [headline |-> RemoveTags(Strip(Chars(headline))), url |-> url, source |-> source]

\* urlparse(url).netloc, for the urls of the model
Netloc(url) ==
    CASE url = "https://www.nj.com/a" -> "www.nj.com"
      [] url = "https://nj.example/b" -> "nj.example"
      [] url = "https://nj.example/c" -> "nj.example"
      [] url \in {"https://nj.example/d", "https://nj.example/e",
                  "https://nj.example/f", "https://nj.example/g",
                  "https://nj.example/h", "https://nj.example/i"} -> "nj.example"
      [] OTHER -> ""

\* extract_source_from_url's domain_map, in the order of its keys
domain_map ==
    << <<"nj.com", "NJ.com">>,
       <<"njspotlightnews.org", "NJ Spotlight News">>,
       <<"newjerseymonitor.com", "NJ Monitor">>,
       <<"newjerseyglobe.com", "NJ Globe">>,
       <<"northjersey.com", "NorthJersey.com">>,
       <<"app.com", "Asbury Park Press">>,
       <<"pressofatlanticcity.com", "Press of Atlantic City">>,
       <<"njbiz.com", "NJ Biz">>,
       <<"roi-nj.com", "ROI-NJ">>,
       <<"trentonian.com", "Trentonian">>,
       <<"montclairlocal.news", "Montclair Local">>,
       <<"villagegreennj.com", "Village Green">>,
       <<"baristanet.com", "Baristanet">>,
       <<"hudsonreporter.com", "Hudson Reporter">>,
       <<"jerseydigs.com", "Jersey Digs">>,
       <<"morristowngreen.com", "Morristown Green">>,
       <<"unionnewsdaily.com", "Union News Daily">>,
       <<"mercerme.com", "MercerMe">>,
       <<"planetprinceton.com", "Planet Princeton">>,
       <<"jerseyshoreonline.com", "Jersey Shore Online">>,
       <<"njpen.com", "NJ Pen">>,
       <<"njarts.net", "NJ Arts">>,
       <<"njedreport.com", "NJ Education Report">>,
       <<"insidernj.com", "InsiderNJ">>,
       <<"whyy.org", "WHYY">>,
       <<"gothamist.com", "Gothamist">>,
       <<"tapinto.net", "TAPinto">>,
       <<"njdemocrat.substack.com", "NJ Democrat">>,
       <<"echonewstv.com", "Echo News TV">> >>

\* The source name for the url's domain: the exact key, else the first key
\* the domain contains, else the empty string.
extract_source_from_url(url) ==
    IF url = "" THEN ""
    ELSE LET domain == RemoveAll(Chars("www."), Lower(Chars(Netloc(url))))
             exact == {n \in DOMAIN domain_map : Chars(domain_map[n][1]) = domain}
             partial == {n \in DOMAIN domain_map : Contains(Chars(domain_map[n][1]), domain)}
         IN  IF exact # {} THEN domain_map[CHOOSE n \in exact : TRUE][2]
             ELSE IF partial # {}
                  THEN domain_map[CHOOSE n \in partial : \A m \in partial : n <= m][2]
                  ELSE ""

\* The attribution of a story, as characters: its stripped source, or the
\* name for its url when the source is empty or "Unknown".
SourceOf(story) ==
    LET source == Strip(Chars(Get(story.source, "")))
    IN  IF source = <<>> \/ source = Chars("Unknown")
        THEN Chars(extract_source_from_url(Get(story.url, "")))
        ELSE source

\* The items of a section: of its first max_stories stories, those with an
\* attribution.  No story of the model has a "sources" list.
format_section_stories(list) ==
    LET shown == SubSeq(list, 1, Min(Len(list), MaxSectionStories))
        kept == SelectSeq(shown, LAMBDA story : SourceOf(story) # <<>>)
    IN  [n \in DOMAIN kept |->
            format_story(kept[n].headline, Get(kept[n].url, ""), SourceOf(kept[n]))]

\* the keys of section_placeholders
PlaceholderSections ==
    {"top_stories", "politics", "housing", "education", "health", "environment",
     "lastly"}

\* the template with each placeholder replaced by the items of its section
build_newsletter(sections) ==
    [key \in PlaceholderSections |->
        format_section_stories(SectionOf(sections, key))]

-----------------------------------------------------------------------------
(* workflow.py: feedback_loop *)

\* the lines the user is tried with
InputLines ==
    {"", "   ", "done", " DONE ", "refresh", " Refresh",
     "move NJ Transit to politics", "done!"}

\* A faulty variant: the keywords are compared without lower-casing.
LoopBranchExact(line) ==
    LET feedback == Strip(Chars(line))
    IN  IF feedback = Chars("done") \/ feedback = <<>> THEN "break"
        ELSE IF feedback = Chars("refresh") THEN "refresh"
        ELSE "process"

\* A faulty variant: 'refresh' is handled as an instruction.
LoopBranchNoRefresh(line) ==
    LET feedback == Strip(Chars(line))
    IN  IF Lower(feedback) = Chars("done") \/ feedback = <<>> THEN "break"
        ELSE "process"

\* The branch an iteration takes for the line input() returned.
LoopBranch(line) ==
    LET feedback == Strip(Chars(line))
    IN  IF Lower(feedback) = Chars("done") \/ feedback = <<>> THEN "break"
        ELSE IF Lower(feedback) = Chars("refresh") THEN "refresh"
        ELSE "process"

\* The entries of the "actions" array the oracle is tried with in the loop:
\* a move, a move to a section named by a JSON number, a remove, a note and
\* an entry that is no JSON object.
LoopActionChoices ==
    { Move("NJ Transit", "top_stories", "politics"),
      Move("school", "top_stories", NumberFive),
      Remove("school", "politics"),
      Note("Cannot do that"),
      NonDict }

LoopResponses ==
    {[kind |-> kd, actions |-> <<>>] : kd \in {"error", "unparseable", "nonobject"}}
    \cup
    UNION {{[kind |-> "object", actions |-> a] : a \in [1..n -> LoopActionChoices]} :
           n \in 0..MaxLoopActions}

\* the url of the story with this id, in the loop
LoopUrl(id) ==
    CASE id = 1 -> "https://www.nj.com/a"
      [] id = 2 -> "https://nj.example/b"
      [] OTHER -> "https://nj.example/c"

LoopStory(id, headline, source, section) ==
    [id |-> id, headline |-> headline, url |-> LoopUrl(id), source |-> source,
     section |-> section, confidence |-> "0.9"]

\* The classified stories the loop starts from: the first without source
\* and with a url of a known domain, the second with a source and a headline
\* that may hold a tag, the third with a source or without attribution.
LoopStories ==
    { << LoopStory(1, "NJ Transit fares rise", "Unknown", s1),
         LoopStory(2, h2, "NJ Spotlight News", s2),
         LoopStory(3, "Parent sues school board", w3, s3) >> :
        s1 \in {"top_stories", "politics"},
        s2 \in {"top_stories", "politics"},
        s3 \in {"top_stories", "politics"},
        h2 \in {"School board vote", "School board <b>vote</b> "},
        w3 \in {" WHYY ", ""} }

\* what lp_returned holds until feedback_loop returns
NotReturned == [sections |-> <<>>, html |-> <<>>]

LoopIdle ==
    /\ lp_sections = <<>> /\ lp_entry = <<>> /\ lp_state = "idle" /\ lp_html = <<>>
    /\ lp_line = Absent /\ lp_calls = 0 /\ lp_passes = 0
    /\ lp_returned = NotReturned /\ lp_round = 0

\* run_workflow calls feedback_loop on the organized sections, after it wrote
\* their newsletter to the preview file.
LoopInit ==
    /\ \E list \in LoopStories :
          lp_sections = organize_by_section(list, DefaultMaxTop)
    /\ lp_entry = lp_sections
    /\ lp_state = "AwaitingFeedback"
    /\ lp_html = build_newsletter(lp_sections)
    /\ lp_line = Absent
    /\ lp_calls = 0
    /\ lp_passes = 0
    /\ lp_returned = NotReturned
    /\ lp_round = 0

\* 'done' or an empty line: break, then the final html and the return
FinishLoop ==
    /\ lp_state = "AwaitingFeedback"
    /\ \E line \in InputLines :
        /\ LoopBranch(line) = "break"
        /\ lp_line' = line
    /\ lp_state' = "Done"
    /\ lp_returned' = [sections |-> lp_sections, html |-> build_newsletter(lp_sections)]
    /\ UNCHANGED <<lp_sections, lp_entry, lp_html, lp_calls, lp_passes, lp_round>>
    /\ UNCHANGED <<classVars, dedupVars, orgVars, fbVars, filterVars, plVars, applyVars, reviewVars>>

\* 'refresh': the preview file is written again
RefreshPreview ==
    /\ lp_state = "AwaitingFeedback"
    /\ lp_round < MaxLoopRounds
    /\ \E line \in InputLines :
        /\ LoopBranch(line) = "refresh"
        /\ lp_line' = line
    /\ lp_html' = build_newsletter(lp_sections)
    /\ lp_round' = lp_round + 1
    /\ UNCHANGED <<lp_sections, lp_entry, lp_state, lp_calls, lp_passes, lp_returned>>
    /\ UNCHANGED <<classVars, dedupVars, orgVars, fbVars, filterVars, plVars, applyVars, reviewVars>>

\* Any other line: process_feedback, then the preview file is written again.
\* An exception process_feedback does not catch leaves feedback_loop, before
\* the oracle is called.
ProcessFeedback ==
    /\ lp_state = "AwaitingFeedback"
    /\ lp_round < MaxLoopRounds
    /\ \E line \in InputLines :
        /\ LoopBranch(line) = "process"
        /\ lp_line' = line
    /\ \E resp \in LoopResponses :
        LET r == process_feedback(lp_sections, resp)
        IN  IF r.raised
            THEN /\ lp_state' = "raised"
                 /\ UNCHANGED <<lp_sections, lp_html, lp_calls>>
            ELSE /\ lp_sections' = r.sections
                 /\ lp_html' = build_newsletter(r.sections)
                 /\ lp_calls' = lp_calls + 1
                 /\ UNCHANGED lp_state
    /\ lp_passes' = lp_passes + 1
    /\ lp_round' = lp_round + 1
    /\ UNCHANGED <<lp_entry, lp_returned>>
    /\ UNCHANGED <<classVars, dedupVars, orgVars, fbVars, filterVars, plVars, applyVars, reviewVars>>

LoopNext == FinishLoop \/ RefreshPreview \/ ProcessFeedback

-----------------------------------------------------------------------------
(* classifier.py: filter_top_stories *)

TOP_STORIES_EXCLUSION_KEYWORDS ==
    << "carjacked", "carjacking", "robbed", "robbery", "robbery", "murder",
       "murdered", "homicide", "killed", "killing", "stabbed", "stabbing",
       "shot", "shooting", "assault", "assaulted", "armed robbery",
       "home invasion", "burglar", "burglary", "theft", "stolen", "arson",
       "kidnapped", "kidnapping", "rape", "raped", "sex assault",
       "sexual assault", "manslaughter", "hit-and-run", "hit and run",
       "drug bust", "drug arrest", "overdose", "found dead", "body found",
       "crash", "crashed", "fatal crash", "deadly crash", "wrong-way driver",
       "car accident", "vehicle accident", "truck crash", "bus crash",
       "pedestrian struck", "pedestrian hit", "pedestrian killed",
       "motorcyclist killed", "cyclist killed", "dies in crash",
       "killed in crash", "injured in crash", "multi-car", "multi-vehicle",
       "pileup", "pile-up", "rollover", "house fire", "apartment fire",
       "building fire", "blaze kills", "fire kills", "explosion kills",
       "gas explosion", "drowning", "drowned", "missing person",
       "amber alert", "child abduction" >>

\* A faulty variant: the headline is not lower-cased before the search.
is_crime_or_crash_headline_exact(headline) ==
    \E n \in DOMAIN TOP_STORIES_EXCLUSION_KEYWORDS :
        Contains(Chars(TOP_STORIES_EXCLUSION_KEYWORDS[n]), Chars(headline))

\* headline_lower = headline.lower(); True at the first keyword found in it
is_crime_or_crash_headline(headline) ==
    \E n \in DOMAIN TOP_STORIES_EXCLUSION_KEYWORDS :
        Contains(Chars(TOP_STORIES_EXCLUSION_KEYWORDS[n]), Lower(Chars(headline)))

FilterReason == "crime/crash content excluded from top_stories"

\* One pass of the loop body: the story as the loop leaves it.
FilterStory(story) ==
    IF story.section = "top_stories" /\ is_crime_or_crash_headline(story.headline)
    THEN [story EXCEPT !.section = "skip", !.filter_reason = FilterReason]
    ELSE story

\* The list after the loop; it is the argument itself, changed in place.
filter_top_stories(list) == [n \in DOMAIN list |-> FilterStory(list[n])]

\* The classified stories filter_top_stories is tried on: a headline with an
\* exclusion keyword in capitals, one with a keyword inside another word and
\* one without, each with the priority label, another label or no label.
FilterChoices(id) ==
    {[id |-> id, headline |-> h, url |-> UrlOf(id), section |-> l,
      confidence |-> "0.9", filter_reason |-> Absent] :
        h \in {"Fatal CRASH closes Turnpike", "Budget snapshot released",
               "School board vote"},
        l \in {"top_stories", "politics", Absent}}

FilterLists(n) ==
    {list \in [1..n -> UNION {FilterChoices(id) : id \in 1..n}] :
        \A j \in 1..n : list[j].id = j}

FilterIdle ==
    /\ ft_stories = <<>> /\ ft_input = <<>> /\ filtered_count = 0 /\ ft_pc = "idle"

FilterInit ==
    /\ \E n \in 0..MaxFilterStories : ft_stories \in FilterLists(n)
    /\ ft_input = ft_stories
    /\ filtered_count = 0
    /\ ft_pc = "start"

\* stories = filter_top_stories(stories)
Filter ==
    /\ ft_pc = "start"
    /\ ft_stories' = filter_top_stories(ft_stories)
    /\ filtered_count' =
          Cardinality({n \in DOMAIN ft_stories : FilterStory(ft_stories[n]) # ft_stories[n]})
    /\ ft_pc' = "filtered"
    /\ UNCHANGED ft_input
    /\ UNCHANGED <<classVars, dedupVars, orgVars, fbVars, plVars, applyVars, loopVars, reviewVars>>

FilterNext == Filter

-----------------------------------------------------------------------------
(* main.py: run_pipeline, steps 2 to 4 (run_workflow, step 3, makes the same *)
(* three calls): classify_all_stories, deduplicate_stories and               *)
(* organize_by_section.  No other function is called on the stories.         *)

\* airtable_fetcher.SECTION_MAP
SECTION_MAP ==
    ("Top stories" :> "top_stories") @@
    ("Politics + government" :> "politics") @@
    ("Housing + development" :> "housing") @@
    ("Work + education" :> "education") @@
    ("Health + safety" :> "health") @@
    ("Climate + environment" :> "environment") @@
    ("Lastly" :> "lastly")

\* classify_stories_batch's default max_per_request
DefaultMaxPerRequest == 10

\* story.get("from_airtable") and story.get("section")
PreClassified(story) == story.from_airtable /\ Truthy(story.section)

\* A faulty variant: a label SECTION_MAP does not have is kept as it is.
MapSectionKeepsUnknown(story) ==
    [story EXCEPT !.section =
        IF story.section \in DOMAIN SECTION_MAP THEN SECTION_MAP[story.section]
        ELSE story.section]

\* story["section"] = SECTION_MAP.get(airtable_section, "lastly")
MapSection(story) ==
    [story EXCEPT !.section =
        IF story.section \in DOMAIN SECTION_MAP THEN SECTION_MAP[story.section]
        ELSE "lastly"]

\* The fetched stories the pipeline is tried on: a feed story with or without
\* an exclusion keyword in its headline, and a submitted story with a section
\* of the submission form, with a section the form does not have, or with
\* an empty section.  A story has a url of its own or the url of story 1.
PipelineChoices(id) ==
    {[id |-> id, headline |-> h, url |-> u, section |-> Absent,
      confidence |-> Absent, from_airtable |-> FALSE] :
        h \in {"Fatal CRASH closes Turnpike", "School board vote"},
        u \in {UrlOf(1), UrlOf(id)}}
    \cup
    {[id |-> id, headline |-> "Fatal CRASH closes Turnpike", url |-> u,
      section |-> l, confidence |-> Absent, from_airtable |-> TRUE] :
        l \in {"Top stories", "Sports", ""},
        u \in {UrlOf(1), UrlOf(id)}}

PipelineLists(n) ==
    {list \in [1..n -> UNION {PipelineChoices(id) : id \in 1..n}] :
        \A j \in 1..n : list[j].id = j}

PipelineIdle ==
    /\ pl_stories = <<>> /\ pl_classified = <<>> /\ pl_unique = <<>>
    /\ pl_sections = <<>> /\ pl_pc = "idle"

\* run_pipeline returns before step 2 when nothing was fetched
PipelineInit ==
    /\ \E n \in 1..MaxPipelineStories : pl_stories \in PipelineLists(n)
    /\ pl_classified = <<>>
    /\ pl_unique = <<>>
    /\ pl_sections = <<>>
    /\ pl_pc = "fetched"

\* classify_all_stories up to its call of classify_stories_batch: the
\* submitted stories with a section get SECTION_MAP's label, the other
\* stories are the argument of classify_stories_batch.
ClassifyAllStories ==
    /\ pl_pc = "fetched"
    /\ pl_classified' =
          [n \in DOMAIN SelectSeq(pl_stories, PreClassified) |->
              MapSection(SelectSeq(pl_stories, PreClassified)[n])]
    /\ stories' = SelectSeq(pl_stories, LAMBDA story : ~PreClassified(story))
    /\ max_per_request' = DefaultMaxPerRequest
    /\ i' = 0
    /\ k' = 0
    /\ pc' = IF Len(stories') = 0 THEN "done" ELSE "batch"
    /\ results' = <<>>
    /\ origin' = <<>>
    /\ calls' = <<>>
    /\ pl_pc' = "classifying"
    /\ UNCHANGED <<pl_stories, pl_unique, pl_sections>>
    /\ UNCHANGED <<dedupVars, orgVars, fbVars, filterVars, applyVars, loopVars, reviewVars>>

\* A faulty variant: the oracle's stories are put in front.
ExtendInFront(classified, newly_classified) == newly_classified \o classified

\* classified.extend(newly_classified)
Extend(classified, newly_classified) == classified \o newly_classified

\* classified.extend(newly_classified), then steps 3 and 4 of run_pipeline:
\* unique = deduplicate_stories(classified); sections = organize_by_section(unique)
DeduplicateAndOrganize ==
    /\ pl_pc = "classifying"
    /\ pc = "done"
    /\ pl_classified' = Extend(pl_classified, results)
    /\ pl_unique' = deduplicate_stories(pl_classified')
    /\ pl_sections' = organize_by_section(pl_unique', DefaultMaxTop)
    /\ pl_pc' = "organized"
    /\ UNCHANGED pl_stories
    /\ UNCHANGED <<classVars, dedupVars, orgVars, fbVars, filterVars, applyVars, loopVars, reviewVars>>

PipelineNext ==
    \/ ClassifyAllStories
    \/ BatchCall
    \/ StoryCall
    \/ DeduplicateAndOrganize

-----------------------------------------------------------------------------
(* workflow.py: run_workflow, step 4: review_airtable_submissions on the    *)
(* list unique, then sections = organize_by_section(unique).  The user's    *)
(* lines are the environment.                                               *)

\* the section options of the review, in the order of their numbers
ReviewSections ==
    <<"top_stories", "politics", "housing", "education", "health",
      "environment", "lastly">>

\* section_response.isdigit() and 1 <= int(section_response) <= 7: the
\* number, 0 for any other line
SectionNumber(response) ==
    CASE response = <<"1">> -> 1
      [] response = <<"2">> -> 2
      [] response = <<"3">> -> 3
      [] response = <<"4">> -> 4
      [] response = <<"5">> -> 5
      [] response = <<"6">> -> 6
      [] response = <<"7">> -> 7
      [] OTHER -> 0

\* The source after step 1 of a story's review: the line typed, else the
\* current source, else the name for the url; the empty string when there is
\* none of them (the story is skipped then).  The sources and lines tried
\* have no blanks around them: strip() leaves them as they are.
FinalSource(story, line) ==
    LET current_source == Get(story.source, "")
        suggested_source == extract_source_from_url(Get(story.url, ""))
    IN  IF line # "" THEN line
        ELSE IF current_source # "" THEN current_source
        ELSE suggested_source

\* The section after step 2: the suggested section for an empty line, the
\* option of the number typed, None (Absent) for 's'.  A line that is none of
\* these is asked for again and is not among the lines tried.
FinalSection(story, line) ==
    LET section_response == Lower(Strip(Chars(line)))
        suggested_section == Get(story.section, "lastly")
    IN  IF section_response = <<>> THEN suggested_section
        ELSE IF section_response = <<"s">> THEN Absent
        ELSE ReviewSections[SectionNumber(section_response)]

\* The body of the loop over the submitted stories, for the story at
\* position n of the list and the lines typed for it: the story is skipped,
\* or an update is approved and the story gets its source and section.
\* (Every story of the lists tried has an id.)
ReviewOne(acc, n, input) ==
    LET story == acc.stories[n]
        final_source == FinalSource(story, input.source)
        final_section == FinalSection(story, input.section)
    IN  IF ~story.from_airtable THEN acc
        ELSE IF final_source = "" \/ Lower(Chars(final_source)) = <<"s">> THEN acc
        ELSE IF final_section = Absent THEN acc
        ELSE [stories |-> [acc.stories EXCEPT ![n].source = final_source,
                                              ![n].section = final_section],
              updates |-> Append(acc.updates,
                                 [id |-> story.id, source |-> final_source,
                                  section |-> final_section])]

RECURSIVE ReviewFrom(_, _, _)
ReviewFrom(acc, n, inputs) ==
    IF n > Len(acc.stories) THEN acc
    ELSE ReviewFrom(ReviewOne(acc, n, inputs[n]), n + 1, inputs)

\* review_airtable_submissions: the updates returned and the list with its
\* approved stories changed
review_airtable_submissions(list, inputs) ==
    ReviewFrom([stories |-> list, updates |-> <<>>], 1, inputs)

\* The lines typed for a story: for the source an empty line or 's', for the
\* section an empty line, the number of "top_stories", or 's' in capitals
\* between blanks.
ReviewInputs ==
    {[source |-> a, section |-> b] : a \in {"", "s"}, b \in {"", "1", " S "}}

ReviewUrl(id) ==
    CASE id = 1 -> "https://www.nj.com/a"
      [] id = 2 -> "https://nj.example/b"
      [] id = 3 -> "https://nj.example/c"
      [] id = 4 -> "https://nj.example/d"
      [] id = 5 -> "https://nj.example/e"
      [] id = 6 -> "https://nj.example/f"
      [] id = 7 -> "https://nj.example/g"
      [] id = 8 -> "https://nj.example/h"
      [] OTHER -> "https://nj.example/i"

\* A feed story the oracle labelled "top_stories".
ReviewFeed(id) ==
    [id |-> id, headline |-> "NJ Transit fares rise", url |-> ReviewUrl(id),
     source |-> "NJ.com", section |-> "top_stories", confidence |-> "0.9",
     from_airtable |-> FALSE]

ReviewSubmission(id, source, section) ==
    [id |-> id, headline |-> "School board vote", url |-> ReviewUrl(id),
     source |-> source, section |-> section, confidence |-> "0.9",
     from_airtable |-> TRUE]

\* The deduplicated lists the review is tried on: n stories, of which m are
\* submissions, at the front of the list (pre-labelled ones) or at its end
\* (ones the oracle labelled); the submissions of a list have the same
\* source, or none, and the same section.
ReviewLists ==
    UNION {
        {[j \in 1..n |->
            IF (front /\ j <= m) \/ (~front /\ j > n - m)  \* all n when m > n
            THEN ReviewSubmission(j, source, section)
            ELSE ReviewFeed(j)] :
                front \in BOOLEAN, source \in {"NJ.com", ""},
                section \in {"politics", "top_stories", OutsideLabel}} :
        n \in 1..MaxReviewStories, m \in 0..MaxSubmissions}

ReviewIdle ==
    /\ rv_unique = <<>> /\ rv_updates = <<>> /\ rv_sections = <<>> /\ rv_pc = "idle"

ReviewInit ==
    /\ rv_unique \in ReviewLists
    /\ rv_updates = <<>>
    /\ rv_sections = <<>>
    /\ rv_pc = "start"

\* airtable_updates = review_airtable_submissions(unique)
Review ==
    /\ rv_pc = "start"
    /\ \E inputs \in [DOMAIN rv_unique -> ReviewInputs] :
          /\ \A j \in DOMAIN rv_unique :
                ~rv_unique[j].from_airtable =>
                    inputs[j] = [source |-> "", section |-> ""]
          /\ LET r == review_airtable_submissions(rv_unique, inputs)
             IN  /\ rv_unique' = r.stories
                 /\ rv_updates' = r.updates
    /\ rv_pc' = "reviewed"
    /\ UNCHANGED rv_sections
    /\ UNCHANGED <<classVars, dedupVars, orgVars, fbVars, filterVars, plVars, applyVars,
                   loopVars>>

\* sections = organize_by_section(unique), after the review
OrganizeReviewed ==
    /\ rv_pc = "reviewed"
    /\ rv_sections' = organize_by_section(rv_unique, DefaultMaxTop)
    /\ rv_pc' = "organized"
    /\ UNCHANGED <<rv_unique, rv_updates>>
    /\ UNCHANGED <<classVars, dedupVars, orgVars, fbVars, filterVars, plVars, applyVars,
                   loopVars>>

ReviewNext == Review \/ OrganizeReviewed

-----------------------------------------------------------------------------
(* Specifications *)

InitClassify == ClassifyInit /\ DedupIdle /\ OrgIdle /\ FeedbackIdle /\ FilterIdle /\ PipelineIdle
    /\ ApplyIdle /\ LoopIdle /\ ReviewIdle

InitDedup == ClassifyIdle /\ DedupInit /\ OrgIdle /\ FeedbackIdle /\ FilterIdle /\ PipelineIdle
    /\ ApplyIdle /\ LoopIdle /\ ReviewIdle

InitOrganize == ClassifyIdle /\ DedupIdle /\ OrgInit /\ FeedbackIdle /\ FilterIdle /\ PipelineIdle
    /\ ApplyIdle /\ LoopIdle /\ ReviewIdle

InitFeedback == ClassifyIdle /\ DedupIdle /\ OrgIdle /\ FeedbackInit /\ FilterIdle /\ PipelineIdle
    /\ ApplyIdle /\ LoopIdle /\ ReviewIdle

InitFilter == ClassifyIdle /\ DedupIdle /\ OrgIdle /\ FeedbackIdle /\ FilterInit /\ PipelineIdle
    /\ ApplyIdle /\ LoopIdle /\ ReviewIdle

InitPipeline ==
    ClassifyIdle /\ DedupIdle /\ OrgIdle /\ FeedbackIdle /\ FilterIdle /\ PipelineInit
    /\ ApplyIdle /\ LoopIdle /\ ReviewIdle

InitApply ==
    ClassifyIdle /\ DedupIdle /\ OrgIdle /\ FeedbackIdle /\ FilterIdle /\ PipelineIdle
    /\ ApplyInit /\ LoopIdle /\ ReviewIdle

InitLoop ==
    ClassifyIdle /\ DedupIdle /\ OrgIdle /\ FeedbackIdle /\ FilterIdle /\ PipelineIdle
    /\ ApplyIdle /\ LoopInit /\ ReviewIdle

InitReview ==
    ClassifyIdle /\ DedupIdle /\ OrgIdle /\ FeedbackIdle /\ FilterIdle /\ PipelineIdle
    /\ ApplyIdle /\ LoopIdle /\ ReviewInit

\* classify_stories_batch on a story list, with the oracle as environment
SpecClassify == InitClassify /\ [][ClassifyNext]_vars

\* deduplicate_stories on a story list, and on its own output
SpecDedup == InitDedup /\ [][DedupNext]_vars

\* organize_by_section on a list of classified stories
SpecOrganize == InitOrganize /\ [][OrgNext]_vars

\* process_feedback called again and again on the sections of a run
SpecFeedback == InitFeedback /\ [][FeedbackNext]_vars

\* filter_top_stories on a list of classified stories
SpecFilter == InitFilter /\ [][FilterNext]_vars

\* steps 2 to 4 of run_pipeline on the fetched stories, with the oracle as
\* environment
SpecPipeline == InitPipeline /\ [][PipelineNext]_vars

\* process_feedback on responses of one action, call after call
SpecApply == InitApply /\ [][ApplyNext]_vars

\* feedback_loop, with the user's lines and the oracle as environment
SpecLoop == InitLoop /\ [][LoopNext]_vars

\* the review of the submitted stories and the organizing after it, with the
\* user's lines as environment
SpecReview == InitReview /\ [][ReviewNext]_vars

-----------------------------------------------------------------------------
(* Properties of classify_stories_batch *)

\* the number of stories of the batch that starts at b
BatchSize(b) == Min(b + max_per_request, Len(stories)) - b

\* the ids of the stories of the batch that starts at b, in order
BatchIds(b) == [j \in 1..BatchSize(b) |-> stories[b + j].id]

\* the loop has left the batch that starts at b
BatchFinished(b) == pc = "done" \/ (pc \in {"batch", "fallback"} /\ i > b)

BatchCalls == {calls[n] : n \in {m \in DOMAIN calls : calls[m].call = "batch"}}

\* the per-story calls made for the batch that starts at b, in order
StoryCallsOf(b) == SelectSeq(calls, LAMBDA c : c.call = "story" /\ c.batch = b)

StoryCallIds(b) == [j \in DOMAIN StoryCallsOf(b) |-> StoryCallsOf(b)[j].story]

\* the positions of results that hold the stories of the batch that starts at b
ResultsOf(b) == {j \in DOMAIN results : origin[j].batch = b}

\* The try block raises on the response: the call failed, the text is not
\* JSON, the JSON is an object with a key, or the entry of a story is no object.
Failing(c) ==
    \/ c.kind \in {"error", "unparseable"}
    \/ c.kind = "object" /\ c.answered > 0
    \/ c.kind = "array" /\ ~c.objects

\* C1 (as claimed): classify_stories_batch never raises, and when it returns
\* every input story has been classified and is among the results.
C1_NeverRaises ==
    /\ pc # "raised"
    /\ pc = "done" =>
          \A j \in DOMAIN stories :
              \E h \in DOMAIN results :
                  /\ results[h].id = stories[j].id
                  /\ results[h].section # Absent

\* C2 (as claimed): when the batch call fails or the response is not an array
\* with an entry for every story of the batch (a shorter array included),
\* every story of the batch is classified by an individual classify_story call.
C2_ShortArrayFallsBack ==
    \A c \in BatchCalls :
        ( /\ BatchFinished(c.batch)
          /\ \/ c.kind \in {"error", "unparseable"}
             \/ c.kind = "array" /\ c.answered < BatchSize(c.batch) )
        => StoryCallIds(c.batch) = BatchIds(c.batch)

\* C2 (amended): the fallback is taken exactly when the try block raises on
\* the response; then classify_story is called for the stories of the batch
\* in order, for all of them once the batch is left.  A response that answers
\* fewer stories than the batch holds (a shorter array, an empty object) is
\* no failure: no individual call is made, each story is in results once and
\* the stories without an entry get "lastly" with confidence 0.3.
C2_FallbackOnlyOnFailure ==
    \A c \in BatchCalls :
        IF Failing(c)
        THEN /\ Len(StoryCallIds(c.batch)) <= BatchSize(c.batch)
             /\ StoryCallIds(c.batch) =
                    SubSeq(BatchIds(c.batch), 1, Len(StoryCallIds(c.batch)))
             /\ BatchFinished(c.batch) => StoryCallIds(c.batch) = BatchIds(c.batch)
             /\ \A j \in ResultsOf(c.batch) : origin[j].via # "missing"
        ELSE /\ StoryCallIds(c.batch) = <<>>
             /\ Cardinality(ResultsOf(c.batch)) = BatchSize(c.batch)
             /\ \A j \in ResultsOf(c.batch) :
                  LET pos == results[j].id - c.batch IN
                  /\ origin[j].via = IF pos <= c.answered THEN "batch" ELSE "missing"
                  /\ pos > c.answered =>
                        /\ results[j].section = "lastly"
                        /\ results[j].confidence = "0.3"

\* C2 (witness): the function has returned; one batch got an array that
\* answers its first story only, another batch got a failing response.
C2_Witness ==
    /\ pc = "done"
    /\ \E c \in BatchCalls :
          /\ c.kind = "array" /\ c.objects
          /\ 0 < c.answered /\ c.answered < BatchSize(c.batch)
    /\ \E c \in BatchCalls : Failing(c) /\ StoryCallIds(c.batch) = BatchIds(c.batch)

\* C3 (as claimed): every story in results has a label of SECTIONS, and a
\* story for which the oracle gave no label of SECTIONS has "lastly" with a
\* confidence below 0.5.
C3_LabelsInSections ==
    \A j \in DOMAIN results :
        /\ results[j].section \in SectionSet
        /\ ~origin[j].valid =>
              /\ results[j].section = "lastly"
              /\ Tenths(results[j].confidence) < 5

\* C4: a batch whose batch call and per-story calls all got unparseable text
\* does not raise and gives each of its stories "lastly" with a confidence
\* below 0.5; a batch whose response is well formed makes no per-story call
\* and gives each of its stories the oracle's label and confidence.
C4_UnparseableGetsDefault ==
    \A c \in BatchCalls :
        /\ ( /\ c.kind = "unparseable"
             /\ \A n \in DOMAIN StoryCallsOf(c.batch) :
                    StoryCallsOf(c.batch)[n].kind = "unparseable" )
           => /\ ~(pc = "raised" /\ i = c.batch)
              /\ BatchFinished(c.batch) =>
                    /\ StoryCallIds(c.batch) = BatchIds(c.batch)
                    /\ Cardinality(ResultsOf(c.batch)) = BatchSize(c.batch)
              /\ \A j \in ResultsOf(c.batch) :
                    /\ results[j].section = "lastly"
                    /\ Tenths(results[j].confidence) < 5
        /\ c.wellformed
           => /\ StoryCallIds(c.batch) = <<>>
              /\ Cardinality(ResultsOf(c.batch)) = BatchSize(c.batch)
              /\ \A j \in ResultsOf(c.batch) :
                    /\ results[j].section = StubLabel(results[j])
                    /\ results[j].confidence \in OracleConfidences

\* C4 (witness): the function has returned; a batch of two stories got
\* unparseable text three times, and another batch a well-formed response.
C4_Witness ==
    /\ pc = "done"
    /\ \E c \in BatchCalls :
          /\ c.kind = "unparseable"
          /\ Len(StoryCallsOf(c.batch)) = 2
          /\ \A n \in DOMAIN StoryCallsOf(c.batch) :
                StoryCallsOf(c.batch)[n].kind = "unparseable"
    /\ \E c \in BatchCalls : c.wellformed

-----------------------------------------------------------------------------
(* Properties of process_feedback *)

\* C5: when the feedback oracle call raises or its response is not JSON,
\* process_feedback ends in its except clause and the sections it returns
\* are the sections passed in: the same keys, the same stories, the same order.
C5_OracleErrorKeepsSections ==
    fb_kind \in {"error", "unparseable"} =>
        /\ fb_error
        /\ fb_sections = fb_before

\* C5 (witness): the oracle's response was unparseable text while the
\* sections held stories in "top_stories" and in "politics".
C5_Witness ==
    /\ fb_round > 0
    /\ fb_kind = "unparseable"
    /\ fb_sections["top_stories"] # <<>>
    /\ fb_sections["politics"] # <<>>

\* C6 (as claimed): whenever process_feedback ends in its except clause, no
\* action of the response has been applied: the sections are those passed in.
C6_NoPartialMutation ==
    fb_error => fb_sections = fb_before

-----------------------------------------------------------------------------
(* Properties of deduplicate_stories *)

\* story.get("url", "")
UrlKey(story) == Get(story.url, "")

HasEmptyUrl(story) == UrlKey(story) = ""

\* the position of the first story of list with this url
FirstWithUrl(list, url) ==
    CHOOSE n \in DOMAIN list :
        /\ UrlKey(list[n]) = url
        /\ \A m \in 1..(n - 1) : UrlKey(list[m]) # url

\* C7: the output is no longer than the input, no two of its stories have
\* the same url, each of its stories is the first story of the input with
\* that url, and the stories keep the order of those first occurrences (so
\* the output is a subsequence of the input).
C7_DedupFirstSeenOrder ==
    dd_pc = "once" =>
        /\ Len(dd_unique) <= Len(dd_stories)
        /\ \A a, b \in DOMAIN dd_unique :
              a # b => UrlKey(dd_unique[a]) # UrlKey(dd_unique[b])
        /\ \A a \in DOMAIN dd_unique :
              /\ \E n \in DOMAIN dd_stories : UrlKey(dd_stories[n]) = UrlKey(dd_unique[a])
              /\ dd_unique[a] = dd_stories[FirstWithUrl(dd_stories, UrlKey(dd_unique[a]))]
        /\ \A a, b \in DOMAIN dd_unique :
              a < b => FirstWithUrl(dd_stories, UrlKey(dd_unique[a]))
                         < FirstWithUrl(dd_stories, UrlKey(dd_unique[b]))

\* C7 (witness): of three stories the first and the last are different
\* stories with the same url, and the output holds the first two.
C7_Witness ==
    /\ dd_pc = "once"
    /\ Len(dd_stories) = 3
    /\ ~HasEmptyUrl(dd_stories[1])
    /\ UrlKey(dd_stories[1]) = UrlKey(dd_stories[3])
    /\ dd_stories[1] # dd_stories[3]
    /\ dd_unique = SubSeq(dd_stories, 1, 2)

\* C8 (as claimed): a story with an empty or missing url is never taken for a
\* duplicate, so every such input story is in the output: the output holds
\* as many of them as the input.
C8_EmptyUrlKept ==
    dd_pc = "once" =>
        Len(SelectSeq(dd_unique, HasEmptyUrl)) = Len(SelectSeq(dd_stories, HasEmptyUrl))

\* C9: deduplicate_stories run on its own output returns that output.
C9_DedupIdempotent ==
    dd_pc = "twice" => dd_unique = dd_first

\* C9 (witness): the second call has returned, and the first call had
\* dropped a story and kept two.
C9_Witness ==
    /\ dd_pc = "twice"
    /\ Len(dd_stories) = 3
    /\ Len(dd_first) = 2

-----------------------------------------------------------------------------
(* Properties of organize_by_section *)

\* the input stories labelled "top_stories", in arrival order
TopLabelled ==
    SelectSeq(org_stories, LAMBDA st : Get(st.section, "lastly") = "top_stories")

InSection(story, section) ==
    \E n \in DOMAIN org_sections[section] : org_sections[section][n] = story

\* C10: "top_stories" holds at most max_top_stories stories, they are the
\* first max_top_stories stories labelled "top_stories" in arrival order, and
\* every later one is in another section and not in "top_stories".
C10_TopStoriesCapped ==
    org_pc = "organized" =>
        /\ Len(org_sections["top_stories"]) <= max_top_stories
        /\ org_sections["top_stories"] =
              SubSeq(TopLabelled, 1, Min(max_top_stories, Len(TopLabelled)))
        /\ \A n \in DOMAIN TopLabelled :
              n > max_top_stories =>
                 /\ ~InSection(TopLabelled[n], "top_stories")
                 /\ \E section \in SectionSet \ {"top_stories"} :
                       InSection(TopLabelled[n], section)

\* C10 (witness): three stories labelled "top_stories" were organized with a
\* limit of two.
C10_Witness ==
    /\ org_pc = "organized"
    /\ max_top_stories = 2
    /\ Len(TopLabelled) = 3
    /\ Len(org_sections["top_stories"]) = 2

\* the stories organize_by_section demotes: labelled "top_stories", beyond
\* position max_top_stories
Demoted == {n \in DOMAIN TopLabelled : n > max_top_stories}

\* the keywords of the group of a section, as a set
GroupKeywords(section) ==
    UNION {{OverflowGroups[g].keywords[x] : x \in DOMAIN OverflowGroups[g].keywords} :
           g \in {h \in DOMAIN OverflowGroups : OverflowGroups[h].section = section}}

\* a keyword of the section's group is a substring of the lower-cased headline
GroupHit(section, story) ==
    \E kw \in GroupKeywords(section) : Contains(Chars(kw), Lower(Chars(story.headline)))

\* the fixed order of the candidate sections
GroupOrder == <<"politics", "housing", "education", "health", "environment">>

\* Each demoted story is in the first section of GroupOrder whose group hits
\* its headline, and in "lastly" when no group hits.
DemotedToFirstHit ==
    \A n \in Demoted :
        LET story == TopLabelled[n] IN
        /\ \A g \in DOMAIN GroupOrder :
              ( /\ GroupHit(GroupOrder[g], story)
                /\ \A h \in 1..(g - 1) : ~GroupHit(GroupOrder[h], story) )
              => InSection(story, GroupOrder[g])
        /\ (\A g \in DOMAIN GroupOrder : ~GroupHit(GroupOrder[g], story))
              => InSection(story, "lastly")

\* C11 (as claimed): each demoted story is in the first section, in the order
\* politics, housing, education, health, environment, whose keyword group
\* hits its headline, and in "lastly" when none does; and with capacity 2 and
\* three top stories the first two remain and a third whose headline
\* contains "school board" is in "education".
C11_SchoolBoardToEducation ==
    org_pc = "organized" =>
        /\ DemotedToFirstHit
        /\ ( /\ max_top_stories = 2
             /\ Len(TopLabelled) = 3
             /\ Contains(Chars("school board"), Lower(Chars(TopLabelled[3].headline))) )
           => /\ org_sections["top_stories"] = SubSeq(TopLabelled, 1, 2)
              /\ InSection(TopLabelled[3], "education")

\* C11 (amended): as claimed, but the third story is in "education" when its
\* headline contains "school board" and no keyword of the politics or the
\* housing group ("Parent sues school board" contains "rent").
C11_DemotedToFirstGroup ==
    org_pc = "organized" =>
        /\ DemotedToFirstHit
        /\ ( /\ max_top_stories = 2
             /\ Len(TopLabelled) = 3
             /\ Contains(Chars("school board"), Lower(Chars(TopLabelled[3].headline)))
             /\ ~GroupHit("politics", TopLabelled[3])
             /\ ~GroupHit("housing", TopLabelled[3]) )
           => /\ org_sections["top_stories"] = SubSeq(TopLabelled, 1, 2)
              /\ InSection(TopLabelled[3], "education")

\* C11 (witness): with capacity 2, the third top story "School board vote"
\* was demoted to "education".
C11_Witness ==
    /\ org_pc = "organized"
    /\ max_top_stories = 2
    /\ Len(TopLabelled) = 3
    /\ TopLabelled[3].headline = "School board vote"
    /\ InSection(TopLabelled[3], "education")

-----------------------------------------------------------------------------
(* Properties of filter_top_stories *)

\* a keyword of the exclusion list occurs in the headline, whatever the case
\* of the headline's letters
HasExclusionKeyword(headline) ==
    \E kw \in {TOP_STORIES_EXCLUSION_KEYWORDS[n] : n \in DOMAIN TOP_STORIES_EXCLUSION_KEYWORDS} :
        Contains(Chars(kw), Lower(Chars(headline)))

\* C13: filter_top_stories returns a list of the same length and order in
\* which exactly the stories labelled "top_stories" whose headline holds an
\* exclusion keyword, in any letter case, have the section "skip" and a
\* filter_reason; every other story is as it was, without a filter_reason.
C13_FilterOnlyTopCrime ==
    ft_pc = "filtered" =>
        /\ Len(ft_stories) = Len(ft_input)
        /\ \A n \in DOMAIN ft_input :
              LET before == ft_input[n]
                  after == ft_stories[n]
              IN  /\ after.id = before.id
                  /\ after.headline = before.headline
                  /\ after.url = before.url
                  /\ IF before.section = "top_stories" /\ HasExclusionKeyword(before.headline)
                     THEN /\ after.section = "skip"
                          /\ after.filter_reason = FilterReason
                     ELSE /\ after.section = before.section
                          /\ after.filter_reason = Absent
        /\ filtered_count =
              Cardinality({n \in DOMAIN ft_stories : ft_stories[n].filter_reason # Absent})

\* C13 (witness): of two stories with the headline "Fatal CRASH closes
\* Turnpike" the one labelled "top_stories" was set to "skip" and the one
\* labelled "politics" was left alone.
C13_Witness ==
    /\ ft_pc = "filtered"
    /\ Len(ft_input) = 2
    /\ ft_input[1].headline = "Fatal CRASH closes Turnpike"
    /\ ft_input[2].headline = "Fatal CRASH closes Turnpike"
    /\ ft_input[1].section = "politics"
    /\ ft_input[2].section = "top_stories"
    /\ ft_stories[1].section = "politics"
    /\ ft_stories[2].section = "skip"

-----------------------------------------------------------------------------
(* Properties of the pipeline *)

\* C12 (as claimed): in the section map the pipeline builds, no story of
\* "top_stories" has a headline with an exclusion keyword.
C12_NoExcludedTopStory ==
    pl_pc = "organized" =>
        \A n \in DOMAIN pl_sections["top_stories"] :
            ~HasExclusionKeyword(pl_sections["top_stories"][n].headline)

\* a story of the submission service with a pre-assigned section
PreLabelled(story) ==
    story.from_airtable = TRUE /\ story.section # Absent /\ story.section # ""

\* the fetched stories that are pre-labelled, and the others, in fetch order
FetchedPreLabelled == SelectSeq(pl_stories, PreLabelled)

FetchedOthers == SelectSeq(pl_stories, LAMBDA story : ~PreLabelled(story))

\* the internal label of an external label: the lookup table's, else 'lastly'
InternalLabel(label) ==
    IF label \in DOMAIN SECTION_MAP THEN SECTION_MAP[label] ELSE "lastly"

\* C22: once classify_all_stories has split the fetched stories, the
\* argument of the oracle adapter holds exactly the stories that are not
\* pre-labelled submissions, in fetch order; every per-story oracle call is
\* for one of them; and each pre-labelled submission is in the classified
\* list as it was fetched, but for its section, which is SECTION_MAP's label
\* for its external label, or 'lastly' when SECTION_MAP has none.
C22_PreLabelledBypassOracle ==
    pl_pc \in {"classifying", "organized"} =>
        /\ stories = FetchedOthers
        /\ \A n \in DOMAIN calls :
              calls[n].call = "story" =>
                  \E m \in DOMAIN FetchedOthers : FetchedOthers[m].id = calls[n].story
        /\ \A n \in DOMAIN origin :
              \E m \in DOMAIN FetchedOthers : FetchedOthers[m].id = origin[n].story
        /\ Len(pl_classified) >= Len(FetchedPreLabelled)
        /\ \A n \in DOMAIN FetchedPreLabelled :
              pl_classified[n] =
                  [FetchedPreLabelled[n] EXCEPT
                      !.section = InternalLabel(FetchedPreLabelled[n].section)]

\* C22 (witness): a submission labelled 'Sports' was fetched before a feed
\* story; the submission is classified 'lastly' and the oracle was called
\* for the feed story.
C22_Witness ==
    /\ pl_pc = "classifying"
    /\ Len(pl_stories) = 2
    /\ pl_stories[1].from_airtable /\ pl_stories[1].section = "Sports"
    /\ ~pl_stories[2].from_airtable
    /\ pl_classified[1].section = "lastly"
    /\ calls # <<>>

\* the positions of the fetched stories that are pre-labelled submissions
\* with the url given
SubmittedWith(url) ==
    {n \in DOMAIN pl_stories : PreLabelled(pl_stories[n]) /\ pl_stories[n].url = url}

\* the first of them in fetch order
FirstSubmitted(url) ==
    CHOOSE n \in SubmittedWith(url) : \A m \in SubmittedWith(url) : n <= m

\* the ids of the deduplicated stories with the url given
UniqueWith(url) ==
    {pl_unique[n].id : n \in {m \in DOMAIN pl_unique : pl_unique[m].url = url}}

\* C29: when the pipeline has classified and deduplicated the fetched
\* stories, a feed story that shares its url with a pre-labelled submission
\* is not among the deduplicated stories, wherever the two were in the
\* fetched list: the one story kept for that url is the first pre-labelled
\* submission with it.
C29_SubmissionWinsSharedUrl ==
    pl_pc = "organized" =>
        \A b \in DOMAIN pl_stories :
            LET url == pl_stories[b].url IN
            ~pl_stories[b].from_airtable /\ SubmittedWith(url) # {} =>
                /\ pl_stories[b].id \notin UniqueWith(url)
                /\ UniqueWith(url) = {pl_stories[FirstSubmitted(url)].id}

\* C29 (witness): a feed story was fetched before a pre-labelled submission
\* with the same url, the oracle classified the feed story, and the
\* deduplicated list holds the submission only.
C29_Witness ==
    /\ pl_pc = "organized"
    /\ Len(pl_stories) = 2
    /\ ~pl_stories[1].from_airtable
    /\ PreLabelled(pl_stories[2])
    /\ pl_stories[1].url = pl_stories[2].url
    /\ Len(results) = 1 /\ results[1].id = 1
    /\ Len(pl_unique) = 1 /\ pl_unique[1].id = 2

-----------------------------------------------------------------------------
(* Properties of the review of the submitted stories *)

\* the ids of the stories of a section of the map organized after the review
IdsIn(section) ==
    IF section \in DOMAIN rv_sections
    THEN {rv_sections[section][n].id : n \in DOMAIN rv_sections[section]}
    ELSE {}

\* C30 (as claimed): once the map is organized after the review, the story
\* of every approved update is in the section of the map the update names.
C30_ApprovedSectionIsPlace ==
    rv_pc = "organized" =>
        \A n \in DOMAIN rv_updates :
            rv_updates[n].id \in IdsIn(rv_updates[n].section)

-----------------------------------------------------------------------------
(* Properties of the feedback actions *)

\* the calls of process_feedback so far, and those answered with one action
ApplyCalls == {ap_log[n] : n \in DOMAIN ap_log}

SingleCalls == {e \in ApplyCalls : Len(e.actions) = 1}

\* the story's headline contains the action's headline_contains, whatever
\* the case of either
Matches(story, action) ==
    Contains(Lower(Chars(Get(action.headline_contains, ""))),
             Lower(Chars(story.headline)))

\* the positions of the matching stories of the section the action names
Hits(sections, action) ==
    IF action.from_section \in DOMAIN sections
    THEN {n \in DOMAIN sections[action.from_section] :
              Matches(sections[action.from_section][n], action)}
    ELSE {}

Least(set) == CHOOSE n \in set : \A m \in set : n <= m

\* list without its element at position p
Without(list, p) ==
    [n \in 1..(Len(list) - 1) |-> IF n < p THEN list[n] ELSE list[n + 1]]

\* a complete move or remove action
IsMove(action) ==
    /\ action.action = "move" /\ Truthy(action.from_section) /\ Truthy(action.to_section)
    /\ Hashable(action.from_section) /\ Hashable(action.to_section)

IsRemove(action) == action.action = "remove" /\ Truthy(action.from_section)

\* C14: a move or remove whose from_section has a matching story acts on the
\* first story of from_section whose headline contains headline_contains,
\* case-insensitively, and on no other: a remove takes it out; a move takes it
\* out and appends it at the end of to_section; every other story keeps its
\* section and its place among the others.
C14_FirstMatchOnly ==
    \A e \in SingleCalls :
        LET a == e.actions[1]
            from == a.from_section
            to == a.to_section
            hits == Hits(e.before, a)
        IN  (IsMove(a) \/ IsRemove(a)) /\ hits # {} =>
            LET p == Least(hits)
                x == e.before[from][p]
                rest == Without(e.before[from], p)
                old(s) == IF s = from THEN rest
                          ELSE IF s \in DOMAIN e.before THEN e.before[s] ELSE <<>>
            IN  IF a.action = "remove"
                THEN e.after = [e.before EXCEPT ![from] = rest]
                ELSE /\ DOMAIN e.after = DOMAIN e.before \cup {to}
                     /\ \A s \in DOMAIN e.after :
                            e.after[s] = IF s = to THEN Append(old(s), x) ELSE old(s)

\* C14 (witness): a move whose fragment is in upper case was applied to a
\* section with two matching stories.
C14_Witness ==
    \E e \in SingleCalls :
        /\ IsMove(e.actions[1])
        /\ e.actions[1].headline_contains = "SCHOOL"
        /\ Cardinality(Hits(e.before, e.actions[1])) = 2
        /\ e.after # e.before

\* two calls in a row answered with the same single move, the first of which
\* moved a story
RepeatedMoves ==
    {n \in DOMAIN ap_log :
        /\ n + 1 \in DOMAIN ap_log
        /\ ap_log[n] \in SingleCalls
        /\ ap_log[n + 1].actions = ap_log[n].actions
        /\ IsMove(ap_log[n].actions[1])
        /\ Hits(ap_log[n].before, ap_log[n].actions[1]) # {}}

\* the story the first of the two calls moved
MovedFirst(n) ==
    LET a == ap_log[n].actions[1]
    IN  ap_log[n].before[a.from_section][Least(Hits(ap_log[n].before, a))]

\* the positions, before the second call, of the matching stories other
\* than the one already moved
OtherHits(n) ==
    LET e == ap_log[n + 1]
        a == e.actions[1]
    IN  {m \in Hits(e.before, a) : e.before[a.from_section][m] # MovedFirst(n)}

\* C15: when a move that moved a story is applied again, the second
\* application does not move that story again: it moves the first matching
\* story among the others, or, when there is none, returns the map as it is.
C15_RepeatedMoveSparesMoved ==
    \A n \in RepeatedMoves :
        LET e == ap_log[n + 1]
            a == e.actions[1]
        IN  /\ e.before = ap_log[n].after
            /\ IF OtherHits(n) = {}
               THEN e.after = e.before
               ELSE LET y == e.before[a.from_section][Least(OtherHits(n))]
                        target == e.after[a.to_section]
                    IN  /\ target[Len(target)] = y
                        /\ y # MovedFirst(n)
                        /\ \E m \in 1..(Len(target) - 1) : target[m] = MovedFirst(n)

\* C15 (witness): the same move was applied twice and the second application
\* moved another story.
C15_Witness ==
    \E n \in RepeatedMoves :
        /\ OtherHits(n) # {}
        /\ ap_log[n + 1].after # ap_log[n + 1].before

\* C16: a move or remove whose from_section is not a section of the map, or
\* has no story matching headline_contains, returns the map as it was, with
\* no section added, and does not end in the except clause.
C16_NoMatchNoChange ==
    \A e \in SingleCalls :
        e.actions[1].action \in {"move", "remove"} /\ Hits(e.before, e.actions[1]) = {} =>
            /\ e.after = e.before
            /\ DOMAIN e.after = DOMAIN e.before
            /\ ~e.error

\* C16 (witness): a move found no matching story in a section that holds
\* stories, and named a to_section the map does not have.
C16_Witness ==
    \E e \in SingleCalls :
        LET a == e.actions[1]
        IN  /\ IsMove(a)
            /\ a.from_section \in DOMAIN e.before
            /\ e.before[a.from_section] # <<>>
            /\ Hits(e.before, a) = {}
            /\ a.to_section \notin DOMAIN e.before

\* C17: a move with a matching story whose to_section is not a section of
\* the map is carried out: the map gets the new section, holding the moved
\* story and nothing else, and the call does not end in the except clause.
C17_UnknownTargetCreated ==
    \A e \in SingleCalls :
        LET a == e.actions[1]
            hits == Hits(e.before, a)
        IN  IsMove(a) /\ hits # {} /\ a.to_section \notin DOMAIN e.before =>
            /\ DOMAIN e.after = DOMAIN e.before \cup {a.to_section}
            /\ e.after[a.to_section] = <<e.before[a.from_section][Least(hits)]>>
            /\ Len(e.after[a.from_section]) = Len(e.before[a.from_section]) - 1
            /\ ~e.error

\* C17 (witness): a story was moved to "opinion", a section the map did not
\* have.
C17_Witness ==
    \E e \in SingleCalls :
        /\ IsMove(e.actions[1])
        /\ e.actions[1].to_section = "opinion"
        /\ "opinion" \notin DOMAIN e.before
        /\ "opinion" \in DOMAIN e.after
        /\ e.after["opinion"] # <<>>

\* C18: a response of note actions only returns the map as it was, and the
\* message of each note is printed as it is, in the order of the notes (the
\* empty text for a note without message).
C18_NotesOnlyPrint ==
    \A e \in ApplyCalls :
        (\A n \in DOMAIN e.actions : e.actions[n].dict /\ e.actions[n].action = "note") =>
            /\ e.after = e.before
            /\ ~e.error
            /\ e.printed = [n \in DOMAIN e.actions |->
                                IF e.actions[n].message = Absent THEN ""
                                ELSE e.actions[n].message]

\* C18 (witness): a response of two notes with different messages was
\* applied to a map that holds stories.
C18_Witness ==
    \E e \in ApplyCalls :
        /\ Len(e.actions) = 2
        /\ \A n \in DOMAIN e.actions : e.actions[n].action = "note"
        /\ e.actions[1].message # e.actions[2].message
        /\ e.actions[2].message # Absent
        /\ e.before["top_stories"] # <<>>
        /\ e.printed = <<e.actions[1].message, e.actions[2].message>>

-----------------------------------------------------------------------------
(* Properties of the feedback actions: the stories of the map *)

\* the places of a map: a section and a position in it
MapPlaces(sections) ==
    UNION {{<<section, n>> : n \in DOMAIN sections[section]} :
           section \in DOMAIN sections}

StoryCount(sections) == Cardinality(MapPlaces(sections))

\* no story is at two places of the map
OncePerStory(sections) ==
    \A p, q \in MapPlaces(sections) :
        sections[p[1]][p[2]] = sections[q[1]][q[2]] => p = q

\* C27 (as claimed): after every call of process_feedback no story is at two
\* places of the map; a response that is one move or one note leaves the
\* number of stories as it was, and one that is a remove with a matching
\* story lowers it by exactly one.
C27_StoriesConserved ==
    \A e \in ApplyCalls :
        /\ OncePerStory(e.after)
        /\ e \in SingleCalls /\ e.actions[1].action \in {"move", "note"} =>
               StoryCount(e.after) = StoryCount(e.before)
        /\ e \in SingleCalls /\ IsRemove(e.actions[1])
              /\ Hits(e.before, e.actions[1]) # {} =>
               StoryCount(e.after) = StoryCount(e.before) - 1

\* C28 (as claimed): in every state of the feedback loop "top_stories" holds
\* at most as many stories as the capacity the map was organized with.
C28_CapacityKept ==
    Len(ap_sections["top_stories"]) <= ap_max

-----------------------------------------------------------------------------
(* Properties of feedback_loop *)

\* the lines that are instructions: not empty, not 'done', not 'refresh'
InstructionLines == {"move NJ Transit to politics", "done!"}

\* C19 (as claimed): after every instruction the loop has called
\* process_feedback for it and is back in AwaitingFeedback: no exception
\* leaves the loop.
C19_PassReturnsToAwaiting ==
    lp_line \in InstructionLines =>
        /\ lp_state = "AwaitingFeedback"
        /\ lp_passes > 0

\* the lines that end the loop: empty after trimming, or 'done' in any case
TerminalLines == {"", "   ", "done", " DONE "}

\* C20: a step of AwaitingFeedback that reads an empty line or 'done' ends
\* in Done, calls neither the oracle nor process_feedback, leaves the
\* sections as they are and returns them with the newsletter built from
\* them; and no step leaves Done.
C20_DoneReturnsCurrentMap ==
    [][/\ lp_state # "Done"
       /\ lp_state = "AwaitingFeedback" /\ lp_line' \in TerminalLines =>
            /\ lp_state' = "Done"
            /\ lp_sections' = lp_sections
            /\ lp_calls' = lp_calls
            /\ lp_passes' = lp_passes
            /\ lp_returned' = [sections |-> lp_sections,
                               html |-> build_newsletter(lp_sections)]]_vars

\* C20 (witness): the loop ended on ' DONE ' after a pass that changed the
\* sections, and returned a newsletter with an item under politics.
C20_Witness ==
    /\ lp_state = "Done"
    /\ lp_line = " DONE "
    /\ lp_passes > 0
    /\ lp_sections # lp_entry
    /\ lp_returned.sections = lp_sections
    /\ lp_returned.html["politics"] # <<>>

\* the lines that are the refresh command, in any case, after trimming
RefreshLines == {"refresh", " Refresh"}

\* C21: a step of the loop changes the sections only when it is a call of
\* process_feedback for an instruction; a step that reads the refresh
\* command writes the newsletter of the current sections to the preview,
\* calls neither the oracle nor process_feedback, leaves the sections as
\* they are and stays in AwaitingFeedback.
C21_OnlyApplyingChangesMap ==
    [][/\ lp_sections' # lp_sections =>
            /\ lp_line' \in InstructionLines
            /\ lp_passes' = lp_passes + 1
       /\ lp_state = "AwaitingFeedback" /\ lp_line' \in RefreshLines =>
            /\ lp_sections' = lp_sections
            /\ lp_calls' = lp_calls
            /\ lp_passes' = lp_passes
            /\ lp_html' = build_newsletter(lp_sections)
            /\ lp_state' = "AwaitingFeedback"]_vars

\* C21 (witness): ' Refresh' was read after a pass that changed the
\* sections, and the preview shows an item under politics.
C21_Witness ==
    /\ lp_line = " Refresh"
    /\ lp_state = "AwaitingFeedback"
    /\ lp_passes > 0
    /\ lp_calls = lp_passes
    /\ lp_sections # lp_entry
    /\ lp_html = build_newsletter(lp_sections)
    /\ lp_html["politics"] # <<>>

-----------------------------------------------------------------------------
(* Properties of organize_by_section: grouping *)

\* the fixed set of section names
FixedSections ==
    {"top_stories", "politics", "housing", "education", "health", "environment",
     "lastly", "skip"}

\* the section of a story by its label: the label when it is one of the
\* fixed set, the catch-all when it is missing or another label
ExpectedSection(story) ==
    IF story.section # Absent /\ story.section \in FixedSections
    THEN story.section ELSE "lastly"

\* the input stories the grouping puts into the section, but for those
\* labelled "top_stories", in arrival order
Grouped(section) ==
    SelectSeq(org_stories,
              LAMBDA st : st.section # "top_stories" /\ ExpectedSection(st) = section)

\* C23 (as claimed): organize_by_section returns a map for every list of
\* stories, whatever their labels; the map has the fixed sections as keys;
\* each section other than "top_stories" starts with the input stories whose
\* label is that section (for "lastly": also those whose label is missing or
\* outside the fixed set), in arrival order, and whatever follows them is a
\* demoted story labelled "top_stories"; "top_stories" holds only stories
\* with that label.
C23_GroupedByLabel ==
    org_pc # "start" =>
        /\ org_pc = "organized"
        /\ DOMAIN org_sections = FixedSections
        /\ \A section \in FixedSections \ {"top_stories"} :
              /\ Len(org_sections[section]) >= Len(Grouped(section))
              /\ SubSeq(org_sections[section], 1, Len(Grouped(section))) = Grouped(section)
              /\ \A n \in DOMAIN org_sections[section] :
                    n > Len(Grouped(section)) =>
                        org_sections[section][n].section = "top_stories"
        /\ \A n \in DOMAIN org_sections["top_stories"] :
              org_sections["top_stories"][n].section = "top_stories"

\* the places of the returned map that hold the story
PlacesOf(story) ==
    {place \in UNION {{<<section, n>> : n \in DOMAIN org_sections[section]} :
                      section \in DOMAIN org_sections} :
        org_sections[place[1]][place[2]] = story}

\* all places of the returned map
AllPlaces ==
    UNION {{<<section, n>> : n \in DOMAIN org_sections[section]} :
           section \in DOMAIN org_sections}

\* C25: whenever organize_by_section returns a map, every input story is at
\* exactly one place of it, and the map has as many places as the input has
\* stories, for every capacity.
C25_NoStoryLostOrDuplicated ==
    org_pc = "organized" =>
        /\ \A n \in DOMAIN org_stories : Cardinality(PlacesOf(org_stories[n])) = 1
        /\ Cardinality(AllPlaces) = Len(org_stories)

\* C25 (witness): three stories labelled "top_stories" were organized with a
\* capacity of one, and two of them were demoted to other sections.
C25_Witness ==
    /\ org_pc = "organized"
    /\ max_top_stories = 1
    /\ Len(org_stories) = 3
    /\ \A n \in DOMAIN org_stories : org_stories[n].section = "top_stories"
    /\ Len(org_sections["top_stories"]) = 1
    /\ Cardinality(AllPlaces) = 3

-----------------------------------------------------------------------------
(* Properties of classify_stories_batch: oracle calls *)

\* the positions in the log of the batch calls for the batch that starts at b
BatchCallsAt(b) == {n \in DOMAIN calls : calls[n].call = "batch" /\ calls[n].batch = b}

\* the starts of the batches the log has calls for
StartedBatches == {calls[n].batch : n \in DOMAIN calls}

\* C24: the batches are slices of at most max_per_request stories, taken in
\* input order; each batch gets exactly one batch call, before any other call
\* for it; per-story calls are made only for a batch whose batch call
\* failed, for the stories of that batch in order, one per story and for all
\* of them once the batch is left; a batch whose batch call did not fail
\* gets no per-story call; so a batch of k stories costs at most 1 + k calls.
C24_OneBatchCallThenOnePerStory ==
    /\ \A n \in DOMAIN calls :
          /\ calls[n].batch \in {b \in 0..(Len(stories) - 1) : b % max_per_request = 0}
          /\ IF n = 1 THEN calls[n].batch = 0 /\ calls[n].call = "batch"
             ELSE \/ /\ calls[n].batch = calls[n - 1].batch
                     /\ calls[n].call = "story"
                  \/ /\ calls[n].batch = calls[n - 1].batch + max_per_request
                     /\ calls[n].call = "batch"
    /\ \A b \in StartedBatches :
          /\ Cardinality(BatchCallsAt(b)) = 1
          /\ BatchSize(b) <= max_per_request
          /\ Len(StoryCallsOf(b)) <= BatchSize(b)
          /\ Cardinality({n \in DOMAIN calls : calls[n].batch = b}) <= 1 + BatchSize(b)
          /\ LET c == calls[CHOOSE n \in BatchCallsAt(b) : TRUE]
             IN  IF Failing(c)
                 THEN /\ StoryCallIds(b) = SubSeq(BatchIds(b), 1, Len(StoryCallIds(b)))
                      /\ BatchFinished(b) => StoryCallIds(b) = BatchIds(b)
                 ELSE StoryCallIds(b) = <<>>

\* C24 (witness): three stories were classified in batches of two; the first
\* batch call failed and two per-story calls followed, the second batch call
\* did not fail: four calls in all.
C24_Witness ==
    /\ pc = "done"
    /\ Len(stories) = 3
    /\ max_per_request = 2
    /\ Len(calls) = 4
    /\ calls[1].call = "batch" /\ Failing(calls[1])
    /\ calls[2].call = "story" /\ calls[3].call = "story"
    /\ calls[4].call = "batch" /\ ~Failing(calls[4])

\* C26 (as claimed): when classify_stories_batch returns, results holds one
\* entry per input story, in input order, each the input story with a section
\* and a confidence added; no story is in results twice.
C26_OneResultPerStory ==
    pc = "done" =>
        /\ Len(results) = Len(stories)
        /\ \A j \in DOMAIN results :
              /\ j \in DOMAIN stories
              /\ results[j].section # Absent
              /\ results[j].confidence # Absent
              /\ [results[j] EXCEPT !.section = Absent, !.confidence = Absent] = stories[j]

=============================================================================
